---- MODULE Spec2Model ----
(***************************************************************************)
(* Bulk-import pipeline of tvbingefriend-show-service: the import          *)
(* orchestrator (ShowService), the progress tracker (MonitoringService)    *)
(* and the retry coordinator (RetryService), run by queue-triggered        *)
(* workers over an at-least-once page-index queue.                         *)
(***************************************************************************)
EXTENDS Integers, Sequences, FiniteSets, TLC

\* ------------------------------------------------------------------ bounds
\* Total number of messages the page-index queue accepts in one behaviour;
\* an upload beyond it fails like any other storage failure.
MaxMsgs == 2
\* Number of deliveries the transport makes in one behaviour, over all messages.
MaxDeliveries == 4
\* Largest max_attempts handed to with_retry, and largest attempt number
\* handed to calculate_backoff_delay, in a direct call.
MaxAttempts == 4
\* Direct update_import_progress calls start only while a run's counters sum
\* to less than this.
MaxUpdates == 2

\* ------------------------------------------------------- program constants
max_retry_attempts == 3
base_delay_seconds == 2
FullPage == 200
UpsertMaxAttempts == 3

\* ------------------------------------------------------------ value spaces
Workers == {"w1", "w2"}
ImportIds == {"bulk_import_a"}
StartPages == {0, 1}
\* the slots of the page-index queue: one more than MaxMsgs, taken only by an
\* upload made with UploadRoom
QueueSlots == MaxMsgs + 1
MsgIds == 1..QueueSlots
NoImport == ""
NoPage == 0 - 1
NoShow == 0 - 1
Callers == {"c1", "c2"}
NoEntity == [Status |-> "absent"]
NoMsg == [state |-> "none", page |-> NoPage, import_id |-> NoImport,
          dequeue_count |-> 0, dlqSends |-> 0]

PENDING == "pending"
IN_PROGRESS == "in_progress"
COMPLETED == "completed"
FAILED == "failed"

\* operation types and queue names are character sequences, so that the
\* substring test of get_dead_letter_queue_name is computed, not assumed
INDEX_PAGE_OP == <<"i","n","d","e","x","_","p","a","g","e">>
INDEX_QUEUE == <<"i","n","d","e","x","-","q","u","e","u","e">>
DETAILS_QUEUE == <<"d","e","t","a","i","l","s","-","q","u","e","u","e">>
SHOW_DETAILS_OP == <<"s","h","o","w","_","d","e","t","a","i","l","s">>
DATABASE_WRITE_OP == <<"d","a","t","a","b","a","s","e","_","w","r","i","t","e">>
STORAGE_WRITE_OP == <<"s","t","o","r","a","g","e","_","w","r","i","t","e">>
GENERAL == <<"g","e","n","e","r","a","l">>
dead_letter_queue_suffix == <<"-","d","e","a","d","l","e","t","t","e","r">>

VARIABLES
    tracking,     \* importtracking table: import_id -> entity
    queue,        \* page-index queue: message id -> message
    deadLetters,  \* the dead-letter envelopes written (each names its queue)
    worker,       \* per worker: position in the handler and its call log
    starter,      \* the start_get_all_shows call in progress
    generated,    \* import ids generated so far
    details,      \* show-details queue: its message and the handling of it
    calls,        \* tracker methods called directly (endpoints, timers), per caller
    applied,      \* the last direct call of a retry-coordinator method
    health,       \* datahealth table: metric name -> entity
    invoked       \* history: message id -> number of handler invocations

vars == <<tracking, queue, deadLetters, worker, starter, generated,
          details, calls, applied, health, invoked>>

\* ------------------------------------------------------------ retry helper
RECURSIVE Pow2(_)
Pow2(n) == IF n <= 0 THEN 1 ELSE 2 * Pow2(n - 1)

\* calculate_backoff_delay growing linearly instead of doubling
calculate_backoff_delay_linear(attempt) == base_delay_seconds * attempt

calculate_backoff_delay(attempt) == base_delay_seconds * Pow2(attempt - 1)

Lower(c) ==
    CASE c = "I" -> "i" [] c = "N" -> "n" [] c = "D" -> "d" [] c = "E" -> "e"
      [] c = "X" -> "x" [] c = "T" -> "t" [] c = "A" -> "a" [] c = "L" -> "l"
      [] c = "S" -> "s" [] c = "P" -> "p" [] c = "G" -> "g"
      [] OTHER -> c

LowerAll(s) == [k \in 1..Len(s) |-> Lower(s[k])]

Contains(s, sub) ==
    \E k \in 0..(Len(s) - Len(sub)) : SubSeq(s, k + 1, k + Len(sub)) = sub

\* get_dead_letter_queue_name without the type-specific branches
get_dead_letter_queue_name_general(operation_type) ==
    GENERAL \o dead_letter_queue_suffix

\* get_dead_letter_queue_name comparing without lower-casing
get_dead_letter_queue_name_exact(operation_type) ==
    IF Contains(operation_type, <<"i","n","d","e","x">>)
    THEN INDEX_QUEUE \o dead_letter_queue_suffix
    ELSE IF Contains(operation_type, <<"d","e","t","a","i","l","s">>)
         THEN DETAILS_QUEUE \o dead_letter_queue_suffix
         ELSE GENERAL \o dead_letter_queue_suffix

get_dead_letter_queue_name(operation_type) ==
    IF Contains(LowerAll(operation_type), <<"i","n","d","e","x">>)
    THEN INDEX_QUEUE \o dead_letter_queue_suffix
    ELSE IF Contains(LowerAll(operation_type), <<"d","e","t","a","i","l","s">>)
         THEN DETAILS_QUEUE \o dead_letter_queue_suffix
         ELSE GENERAL \o dead_letter_queue_suffix

\* with_retry: the wrapped function fails `failures` times in a row and then
\* succeeds; trackOk says whether track_retry_attempt's store write succeeds
\* (it is not guarded, so its exception leaves the wrapper at once).
\* Result: raised, calls of the function, attempts tracked, sleeps taken.
RECURSIVE with_retry_from(_, _, _, _)
with_retry_from(attempt, attempts, failures, trackOk) ==
    IF attempt > failures
    THEN [raised |-> FALSE, calls |-> attempt, tracked |-> <<>>, sleeps |-> <<>>]
    ELSE IF ~trackOk
    THEN [raised |-> TRUE, calls |-> attempt, tracked |-> <<>>, sleeps |-> <<>>]
    ELSE IF attempt < attempts
    THEN LET rest == with_retry_from(attempt + 1, attempts, failures, trackOk)
         IN  [rest EXCEPT !.tracked = <<attempt>> \o @,
                          !.sleeps = <<calculate_backoff_delay(attempt)>> \o @]
    ELSE [raised |-> TRUE, calls |-> attempt, tracked |-> <<attempt>>, sleeps |-> <<>>]

\* with_retry ignoring its max_attempts argument
with_retry_default(max_attempts, failures, trackOk) ==
    with_retry_from(1, max_retry_attempts, failures, trackOk)

with_retry(max_attempts, failures, trackOk) ==
    with_retry_from(1, IF max_attempts = 0 THEN max_retry_attempts ELSE max_attempts,
                    failures, trackOk)

\* ------------------------------------------------------- catalog responses
\* An item of a fetched page.  kind: "dict" a structured record, "none" a
\* null, "str" a value that is no record.  id / updated are 0 when the record
\* lacks them.  upsertFailures / idFailures: how many times in a row the
\* database session / the ID-table write raises for this item.
Show(id, updated, uf, idf) ==
    [kind |-> "dict", id |-> id, updated |-> updated,
     upsertFailures |-> uf, idFailures |-> idf]
NoneItem == [kind |-> "none", id |-> 0, updated |-> 0,
             upsertFailures |-> 0, idFailures |-> 0]
StrItem == [kind |-> "str", id |-> 0, updated |-> 0,
            upsertFailures |-> 0, idFailures |-> 0]

Prefixes ==
    { <<>>,
      <<Show(1, 7, UpsertMaxAttempts, 0), Show(2, 7, 1, 0), NoneItem,
        StrItem,
        Show(3, 7, 0, UpsertMaxAttempts), Show(4, 0, 0, 0)>> }

\* A fetched page is kept as its first items and its length; the items after
\* the prefix are well-formed records that persist at the first attempt.
ItemAt(r, k) == IF k <= Len(r.prefix) THEN r.prefix[k] ELSE Show(k, 7, 0, 0)

PageLengths(prefix) ==
    (IF Len(prefix) > 0 THEN {Len(prefix)} ELSE {FullPage - 1})
        \cup {FullPage + Len(prefix)}

\* get_shows: an exception, a null, or a list
FetchResults ==
    { [kind |-> "raise", prefix |-> <<>>, n |-> 0],
      [kind |-> "none", prefix |-> <<>>, n |-> 0],
      [kind |-> "list", prefix |-> <<>>, n |-> 0] }
    \cup UNION { { [kind |-> "list", prefix |-> p, n |-> n] : n \in PageLengths(p) } :
                   p \in Prefixes }

CoreFetchResults ==
    {r \in FetchResults : r.prefix = <<>>}

\* Truthy testing for null only (`if shows is not None`)
Truthy_notnull(r) == r.kind = "list"

\* `if shows:` -- a null and an empty list are both falsy
Truthy(r) == r.kind = "list" /\ r.n > 0

\* IsRecord without the isinstance test (`if not show`)
IsRecord_nonnull(show) == show.kind # "none"

\* `if not show or not isinstance(show, dict)`
IsRecord(show) == show.kind = "dict"

\* operation_id of with_retry's wrapper: the name of the wrapped function and
\* the hash of its arguments.  The hash is taken to be free of collisions:
\* different arguments give different identifiers.
operation_id(name, args) == [name |-> name, hash |-> args]

\* upsert_with_retry and update_id_table_with_retry are closures called
\* without arguments: the show is not among args or kwargs
NoArgs == <<>>

\* the keys (PartitionKey, RowKey parts) of the retry records one with_retry
\* call writes with track_retry_attempt
RetryKeys(operation_type, name, tracked) ==
    [k \in 1..Len(tracked) |->
        [operation_type |-> operation_type,
         identifier |-> operation_id(name, NoArgs),
         attempt |-> tracked[k]]]

\* ProcessShow writing the ID-table row of every show that was upserted,
\* whether or not it carries an id and an updated value
ProcessShow_anyid(show, trackOk) ==
    IF ~IsRecord(show)
    THEN [upserted |-> FALSE, idUpdated |-> FALSE, success |-> FALSE, keys |-> <<>>]
    ELSE
      LET up == with_retry(UpsertMaxAttempts, show.upsertFailures, trackOk)
          idw == with_retry(UpsertMaxAttempts, show.idFailures, trackOk)
      IN  [upserted |-> TRUE, idUpdated |-> ~up.raised /\ ~idw.raised,
           success |-> ~up.raised /\ ~idw.raised, keys |-> <<>>]

\* One iteration of the item loop of handle_index_page: whether
\* upsert_with_retry was called, whether the ID-table row was written,
\* whether success_count was incremented, and the retry records written.
ProcessShow(show, trackOk) ==
    IF ~IsRecord(show)
    THEN [upserted |-> FALSE, idUpdated |-> FALSE, success |-> FALSE, keys |-> <<>>]
    ELSE
      LET up == with_retry(UpsertMaxAttempts, show.upsertFailures, trackOk)
          wantId == show.id # 0 /\ show.updated # 0
          idw == with_retry(UpsertMaxAttempts, show.idFailures, trackOk)
          upKeys == RetryKeys(DATABASE_WRITE_OP, "upsert_with_retry", up.tracked)
          idKeys == RetryKeys(STORAGE_WRITE_OP, "update_id_table_with_retry",
                              idw.tracked)
      IN  IF up.raised
          THEN [upserted |-> TRUE, idUpdated |-> FALSE, success |-> FALSE,
                keys |-> upKeys]
          ELSE IF wantId /\ idw.raised
          THEN [upserted |-> TRUE, idUpdated |-> FALSE, success |-> FALSE,
                keys |-> upKeys \o idKeys]
          ELSE [upserted |-> TRUE, idUpdated |-> wantId, success |-> TRUE,
                keys |-> IF wantId THEN upKeys \o idKeys ELSE upKeys]

\* The whole item loop; the iterations share nothing but success_count.
\* The items after the prefix are all alike, so they are counted, not walked:
\* each is upserted, has its ID-table row written and counts as a success.
\* upserted: the prefix positions upsert_with_retry was called for;
\* upsertCalls / idUpdates: calls and ID-table writes over the whole page;
\* retryKeys: the retry records written, in the order of the writes.
ProcessShows(r, trackOk) ==
    LET pre == [k \in 1..Len(r.prefix) |-> ProcessShow(r.prefix[k], trackOk)]
        pad == r.n - Len(r.prefix)
        ups == {k \in 1..Len(r.prefix) : pre[k].upserted}
        RECURSIVE KeysUpTo(_)
        KeysUpTo(k) == IF k = 0 THEN <<>> ELSE KeysUpTo(k - 1) \o pre[k].keys
    IN  [upserted |-> ups,
         upsertCalls |-> Cardinality(ups) + pad,
         idUpdates |-> Cardinality({k \in 1..Len(r.prefix) : pre[k].idUpdated}) + pad,
         success_count |-> Cardinality({k \in 1..Len(r.prefix) : pre[k].success}) + pad,
         retryKeys |-> KeysUpTo(Len(r.prefix))]

\* ------------------------------------------------------------------ state
IdleWorker ==
    [pc |-> "idle", msg |-> 0, page |-> NoPage, import_id |-> NoImport,
     dequeue_count |-> 0, entity |-> NoEntity,
     called |-> FALSE, handlerInvoked |-> FALSE, handlerRaised |-> FALSE,
     fetch |-> [kind |-> "notcalled", prefix |-> <<>>, n |-> 0],
     upserted |-> {}, upsertCalls |-> 0, idUpdates |-> 0, success_count |-> 0,
     progress |-> <<>>, completes |-> <<>>, enqueues |-> <<>>, enqueued |-> <<>>,
     dlqCalls |-> 0, dlqWritten |-> 0, sleeps |-> <<>>, tracked |-> <<>>,
     retryKeys |-> <<>>, result |-> "none"]

\* the show-details queue holds at most one message; show_id NoShow: the
\* message has no show_id
IdleDetails ==
    [state |-> "none", show_id |-> NoShow, dequeue_count |-> 0,
     pc |-> "idle", called |-> FALSE, handlerInvoked |-> FALSE,
     handlerRaised |-> FALSE, fetched |-> FALSE, upsertCalls |-> 0,
     sleeps |-> <<>>, tracked |-> <<>>,
     dlqCalls |-> 0, dlq |-> {}, result |-> "none"]

IdleCall ==
    [pc |-> "idle", method |-> "none", import_id |-> NoImport, page |-> NoPage,
     success |-> TRUE, entity |-> NoEntity, overlapped |-> FALSE,
     wrote |-> FALSE, rise |-> 0, raised |-> FALSE, returned |-> NoEntity,
     failed |-> FALSE]

NotApplied == [f |-> "none"]

Metrics == {"updates_failed", "updates_processed"}
NoMetric == [IsHealthy |-> "absent"]

IdleStarter ==
    [pc |-> "idle", page |-> NoPage, import_id |-> NoImport, returned |-> NoImport,
     enqueues |-> <<>>]

Init ==
    /\ tracking = [i \in ImportIds |-> NoEntity]
    /\ queue = [m \in MsgIds |-> NoMsg]
    /\ deadLetters = {}
    /\ worker = [w \in Workers |-> IdleWorker]
    /\ starter = IdleStarter
    /\ generated = {}
    /\ details = IdleDetails
    /\ calls = [c \in Callers |-> IdleCall]
    /\ applied = NotApplied
    /\ health = [m \in Metrics |-> NoMetric]
    /\ invoked = [m \in MsgIds |-> 0]

UsedMsgs == {m \in MsgIds : queue[m].state # "none"}
QueueHasRoom == Cardinality(UsedMsgs) < MaxMsgs
UploadRoom == Cardinality(UsedMsgs) < QueueSlots
NewMsgId == Cardinality(UsedMsgs) + 1

\* StorageService.upload_queue_message on the page-index queue
Uploaded(body) ==
    [queue EXCEPT ![NewMsgId] =
        [state |-> "visible", page |-> body.page, import_id |-> body.import_id,
         dequeue_count |-> 0, dlqSends |-> 0]]

\* ------------------------------------------------------- progress tracker
\* the entity start_bulk_import_tracking upserts (estimated_pages 0: not given)
start_bulk_import_tracking(start_page, estimated_pages) ==
    [Status |-> IN_PROGRESS, StartPage |-> start_page,
     EstimatedPages |-> IF estimated_pages = 0 THEN 0 - 1 ELSE estimated_pages,
     CompletedPages |-> 0, FailedPages |-> 0, LastProcessedPage |-> NoPage]

\* update_import_progress recording the page without counting it
update_import_progress_uncounted(entity, completed_page, success) ==
    [entity EXCEPT !.LastProcessedPage = completed_page]

\* update_import_progress counting a success as a failure and a failure as
\* a success
update_import_progress_swapped(entity, completed_page, success) ==
    [entity EXCEPT
        !.CompletedPages = IF success THEN @ ELSE @ + 1,
        !.FailedPages = IF success THEN @ + 1 ELSE @,
        !.LastProcessedPage = completed_page]

\* the entity update_import_progress writes back, from the entity it read
update_import_progress(entity, completed_page, success) ==
    [entity EXCEPT
        !.CompletedPages = IF success THEN @ + 1 ELSE @,
        !.FailedPages = IF success THEN @ ELSE @ + 1,
        !.LastProcessedPage = completed_page]

\* the entity complete_bulk_import writes back, from the entity it read
complete_bulk_import(entity, final_status) ==
    [entity EXCEPT !.Status = final_status]

\* ------------------------------------------------------ start_get_all_shows
\* start_message ignoring the requested page
start_message_default(page, import_id) == [page |-> 0, import_id |-> import_id]

start_message(page, import_id) == [page |-> page, import_id |-> import_id]

\* import_id generation and start_bulk_import_tracking; the tracker's upsert
\* is not guarded there, so a store failure leaves start_get_all_shows.
RegisterRun(page) ==
    \E i \in ImportIds \ generated, ok \in BOOLEAN :
        /\ generated' = generated \cup {i}
        /\ tracking' = IF ok
                       THEN [tracking EXCEPT ![i] = start_bulk_import_tracking(page, 0)]
                       ELSE tracking
        /\ starter' = [IdleStarter EXCEPT !.pc = IF ok THEN "enqueue" ELSE "raised",
                                          !.page = page, !.import_id = i]

StartTrack ==
    /\ starter.pc \in {"idle", "returned", "raised"}
    /\ \E page \in StartPages : RegisterRun(page)
    /\ UNCHANGED <<invoked, health, details, calls, applied, queue, deadLetters, worker>>

\* ------------------------------------------------------------ start_get_all
\* the page query parameter: absent, or a string
NoParam == <<"None">>
PageStrings ==
    { NoParam, <<>>, <<"0">>, <<"1">>, <<"0","1">>, <<" ","1"," ">>, <<"+","1">>,
      <<"-","0">>, <<"-","1">>, <<"a","b","c">>, <<"1",".","5">>, <<"1","a">>,
      <<"-">>, <<" ">>, <<"_","1">>, <<"1"," ","1">>, <<"2">>, <<"1","_","0">>,
      <<"1","_","_","0">> }

IsDigit(c) == c \in {"0", "1", "2", "3", "4", "5", "6", "7", "8", "9"}
DigitVal(c) ==
    CASE c = "0" -> 0 [] c = "1" -> 1 [] c = "2" -> 2 [] c = "3" -> 3
      [] c = "4" -> 4 [] c = "5" -> 5 [] c = "6" -> 6 [] c = "7" -> 7
      [] c = "8" -> 8 [] c = "9" -> 9

RECURSIVE Strip(_)
Strip(s) ==
    IF s = <<>> THEN s
    ELSE IF Head(s) = " " THEN Strip(Tail(s))
    ELSE IF s[Len(s)] = " " THEN Strip(SubSeq(s, 1, Len(s) - 1))
    ELSE s

RECURSIVE DigitsValue(_)
DigitsValue(ds) ==
    IF ds = <<>> THEN 0
    ELSE IF ds[Len(ds)] = "_" THEN DigitsValue(SubSeq(ds, 1, Len(ds) - 1))
    ELSE 10 * DigitsValue(SubSeq(ds, 1, Len(ds) - 1)) + DigitVal(ds[Len(ds)])

\* int(page_str): surrounding whitespace, an optional sign, then digits, with
\* single underscores allowed between digits; anything else is a ValueError
ParseInt(page_str) ==
    LET t == Strip(page_str)
        signed == t # <<>> /\ Head(t) \in {"+", "-"}
        ds == IF signed THEN Tail(t) ELSE t
        wellFormed ==
            /\ ds # <<>>
            /\ IsDigit(ds[1]) /\ IsDigit(ds[Len(ds)])
            /\ \A k \in 1..Len(ds) :
                 \/ IsDigit(ds[k])
                 \/ ds[k] = "_" /\ k > 1 /\ k < Len(ds) /\ IsDigit(ds[k - 1])
    IN  IF wellFormed
        THEN [ok |-> TRUE,
              value |-> IF signed /\ Head(t) = "-" THEN 0 - DigitsValue(ds)
                        ELSE DigitsValue(ds)]
        ELSE [ok |-> FALSE, value |-> 0]

\* get_shows_page_number accepting a negative page
get_shows_page_number_signed(page_str) ==
    IF page_str = NoParam \/ page_str = <<>>
    THEN [kind |-> "page", page |-> 0, status_code |-> 0]
    ELSE IF ~ParseInt(page_str).ok
    THEN [kind |-> "response", page |-> 0, status_code |-> 400]
    ELSE [kind |-> "page", page |-> ParseInt(page_str).value, status_code |-> 0]

\* get_shows_page_number: a page number, or the error response
get_shows_page_number(page_str) ==
    IF page_str = NoParam \/ page_str = <<>>
    THEN [kind |-> "page", page |-> 0, status_code |-> 0]
    ELSE IF ~ParseInt(page_str).ok
    THEN [kind |-> "response", page |-> 0, status_code |-> 400]
    ELSE IF ParseInt(page_str).value < 0
    THEN [kind |-> "response", page |-> 0, status_code |-> 400]
    ELSE [kind |-> "page", page |-> ParseInt(page_str).value, status_code |-> 0]

\* A request to start_get_all: the page is validated; the error response is
\* returned at once, else start_get_all_shows is entered (its upload is
\* StartEnqueue).  The request and an error response are kept in `applied`.
StartGetAll ==
    /\ starter.pc \in {"idle", "returned", "raised"}
    /\ \E page_str \in PageStrings :
         LET page == get_shows_page_number(page_str)
         IN  /\ applied' = [f |-> "start_get_all", page_str |-> page_str,
                            status_code |-> page.status_code]
             /\ IF page.kind = "response"
                THEN UNCHANGED <<tracking, starter, generated>>
                ELSE RegisterRun(page.page)
    /\ UNCHANGED <<invoked, health, details, calls, queue, deadLetters, worker>>

\* the status of the response to the last request: the error response, or
\* 202 once start_get_all_shows has returned; 0 while there is none (the
\* call is in progress, or it raised)
StartGetAllStatus ==
    IF applied.f # "start_get_all" THEN 0
    ELSE IF applied.status_code # 0 THEN applied.status_code
    ELSE IF starter.pc = "returned" THEN 202
    ELSE 0

\* the upload of the start message and the return of the import id
StartEnqueue ==
    /\ starter.pc = "enqueue"
    /\ LET body == start_message(starter.page, starter.import_id)
       IN \E ok \in BOOLEAN :
            /\ ok => QueueHasRoom
            /\ queue' = IF ok THEN Uploaded(body) ELSE queue
            /\ starter' = [starter EXCEPT
                             !.pc = IF ok THEN "returned" ELSE "raised",
                             !.enqueues = Append(@, body),
                             !.returned = IF ok THEN starter.import_id ELSE NoImport]
    /\ UNCHANGED <<invoked, health, details, calls, applied, tracking, deadLetters, worker, generated>>

\* ------------------------------------------- handle_queue_message_with_retry
\* the handler returned: log and return True
OnReturn(wk) == [wk EXCEPT !.pc = "finished", !.result = "true"]

\* OnException with the final-attempt test off by one (> for >=)
OnException_strict(wk) ==
    IF wk.dequeue_count > max_retry_attempts
    THEN [wk EXCEPT !.pc = "deadletter"]
    ELSE [wk EXCEPT !.pc = "finished", !.result = "raised"]

\* OnException dead-lettering one attempt early
OnException_early(wk) ==
    IF wk.dequeue_count >= max_retry_attempts - 1
    THEN [wk EXCEPT !.pc = "deadletter"]
    ELSE [wk EXCEPT !.pc = "finished", !.result = "raised"]

\* OnException re-raising on every attempt
OnException_reraising(wk) == [wk EXCEPT !.pc = "finished", !.result = "raised"]

\* the except branch: dead-letter on the final attempt, else re-raise
OnException(wk) ==
    IF wk.dequeue_count >= max_retry_attempts
    THEN [wk EXCEPT !.pc = "deadletter"]
    ELSE [wk EXCEPT !.pc = "finished", !.result = "raised"]

\* BeforeHandler with the exceeded-attempts test off by one
BeforeHandler_late(wk, trackOk) ==
    IF wk.dequeue_count > max_retry_attempts + 1
    THEN [wk EXCEPT !.pc = "deadletter"]
    ELSE IF wk.dequeue_count > 1
    THEN LET slept == [wk EXCEPT
                         !.sleeps = <<calculate_backoff_delay(wk.dequeue_count - 1)>>]
         IN  IF trackOk
             THEN [slept EXCEPT !.tracked = <<wk.dequeue_count>>, !.pc = "handler"]
             ELSE OnException(slept)
    ELSE [wk EXCEPT !.pc = "handler"]

\* BeforeHandler sleeping for the delay of the current attempt
BeforeHandler_longsleep(wk, trackOk) ==
    IF wk.dequeue_count > max_retry_attempts
    THEN [wk EXCEPT !.pc = "deadletter"]
    ELSE IF wk.dequeue_count > 1
    THEN LET slept == [wk EXCEPT
                         !.sleeps = <<calculate_backoff_delay(wk.dequeue_count)>>]
         IN  IF trackOk
             THEN [slept EXCEPT !.tracked = <<wk.dequeue_count>>, !.pc = "handler"]
             ELSE OnException(slept)
    ELSE [wk EXCEPT !.pc = "handler"]

\* BeforeHandler without the test for exceeded attempts
BeforeHandler_unbounded(wk, trackOk) ==
    IF wk.dequeue_count > 1
    THEN LET slept == [wk EXCEPT
                         !.sleeps = <<calculate_backoff_delay(wk.dequeue_count - 1)>>]
         IN  IF trackOk
             THEN [slept EXCEPT !.tracked = <<wk.dequeue_count>>, !.pc = "handler"]
             ELSE OnException(slept)
    ELSE [wk EXCEPT !.pc = "handler"]

\* from entry to the call of the handler
BeforeHandler(wk, trackOk) ==
    IF wk.dequeue_count > max_retry_attempts
    THEN [wk EXCEPT !.pc = "deadletter"]
    ELSE IF wk.dequeue_count > 1
    THEN LET slept == [wk EXCEPT
                         !.sleeps = <<calculate_backoff_delay(wk.dequeue_count - 1)>>]
         IN  IF trackOk
             THEN [slept EXCEPT !.tracked = <<wk.dequeue_count>>, !.pc = "handler"]
             ELSE OnException(slept)
    ELSE [wk EXCEPT !.pc = "handler"]

Deliveries ==
    LET RECURSIVE Sum(_)
        Sum(k) == IF k = 0 THEN 0
                  ELSE Sum(k - 1) + (IF queue[k].state = "none" THEN 0
                                     ELSE queue[k].dequeue_count)
    IN  Sum(QueueSlots) + details.dequeue_count

\* idle workers are interchangeable: the transport picks the first of them
Before(v, w) == v = "w1" /\ w = "w2"

\* The transport hands message m to worker w with its dequeue count raised;
\* get_index_page builds the ShowService (initOk: that succeeds) and calls
\* get_shows_index_page, which calls handle_queue_message_with_retry.
Deliver(w, m) ==
    /\ worker[w].pc = "idle"
    /\ \A v \in Workers : worker[v].pc = "idle" => ~Before(v, w)
    /\ queue[m].state = "visible"
    /\ Deliveries < MaxDeliveries
    /\ queue' = [queue EXCEPT ![m].state = "invisible", ![m].dequeue_count = @ + 1]
    /\ \E initOk \in BOOLEAN, trackOk \in BOOLEAN :
         /\ (~initOk \/ queue[m].dequeue_count + 1 \notin 2..max_retry_attempts) => trackOk
         /\ LET wk == [IdleWorker EXCEPT
                         !.msg = m, !.page = queue[m].page,
                         !.import_id = queue[m].import_id,
                         !.dequeue_count = queue[m].dequeue_count + 1]
            IN worker' = [worker EXCEPT ![w] =
                            IF initOk THEN BeforeHandler([wk EXCEPT !.called = TRUE], trackOk)
                            ELSE [wk EXCEPT !.pc = "finished", !.result = "raised"]]
    /\ UNCHANGED <<invoked, health, details, calls, applied, tracking, deadLetters, starter, generated>>

\* SendToDeadLetterQueue letting a failed write escape
SendToDeadLetterQueue_raising(w) ==
    /\ worker[w].pc = "deadletter"
    /\ worker' = [worker EXCEPT ![w] =
                    [@ EXCEPT !.pc = "finished", !.result = "raised",
                              !.dlqCalls = @ + 1]]
    /\ queue' = [queue EXCEPT ![worker[w].msg].dlqSends = @ + 1]
    /\ UNCHANGED <<invoked, health, details, calls, applied, tracking, deadLetters, starter, generated>>

\* send_to_dead_letter_queue, then return False; a failed write is swallowed
SendToDeadLetterQueue(w) ==
    /\ worker[w].pc = "deadletter"
    /\ LET wk == worker[w]
           envelope ==
             [queue |-> get_dead_letter_queue_name(INDEX_PAGE_OP),
              original_message |-> [page |-> wk.page, import_id |-> wk.import_id],
              operation_type |-> INDEX_PAGE_OP,
              failure_reason |-> IF wk.dequeue_count > max_retry_attempts
                                 THEN "Max retry attempts exceeded" ELSE "error",
              original_message_id |-> wk.msg,
              dequeue_count |-> wk.dequeue_count]
       IN \E ok \in BOOLEAN :
            /\ deadLetters' = IF ok THEN deadLetters \cup {envelope} ELSE deadLetters
            /\ worker' = [worker EXCEPT ![w] =
                            [wk EXCEPT !.pc = "finished", !.result = "false",
                                       !.dlqCalls = @ + 1,
                                       !.dlqWritten = IF ok THEN @ + 1 ELSE @]]
            /\ queue' = [queue EXCEPT ![wk.msg].dlqSends = @ + 1]
    /\ UNCHANGED <<invoked, health, details, calls, applied, tracking, starter, generated>>

\* --------------------------------------------------------- handle_index_page
\* handle_index_page raised: the exception reaches the except branch of
\* handle_queue_message_with_retry
HandlerRaises(wk) == OnException([wk EXCEPT !.handlerRaised = TRUE])

\* FetchBlockRaises without the failure report to the tracker
FetchBlockRaises_unreported(wk) == HandlerRaises(wk)

\* the except branch of the fetch block: report the page as failed, re-raise
FetchBlockRaises(wk) ==
    IF wk.import_id # NoImport
    THEN [wk EXCEPT !.pc = "fail_read", !.progress = Append(@, FALSE)]
    ELSE HandlerRaises(wk)

\* AfterProgress with a strict threshold test (> for >=)
AfterProgress_strict(wk) ==
    IF wk.fetch.n > FullPage
    THEN [wk EXCEPT !.pc = "enqueue"]
    ELSE OnReturn(wk)

\* AfterProgress continuing after every page that holds an item
AfterProgress_nonempty(wk) ==
    IF wk.fetch.n > 0
    THEN [wk EXCEPT !.pc = "enqueue"]
    ELSE OnReturn(wk)

\* the pagination continuation policy, after the progress update
AfterProgress(wk) ==
    IF wk.fetch.n >= FullPage
    THEN [wk EXCEPT !.pc = "enqueue"]
    ELSE OnReturn(wk)

\* AfterUpdate continuing the pagination only when the tracker record was read
AfterUpdate_gated(wk) ==
    IF wk.pc = "prog_write" THEN AfterProgress(wk)
    ELSE IF wk.pc = "prog_read" THEN OnReturn(wk)
    ELSE HandlerRaises(wk)

\* after update_import_progress returned (it never raises)
AfterUpdate(wk) ==
    IF wk.pc \in {"prog_read", "prog_write"} THEN AfterProgress(wk)
    ELSE HandlerRaises(wk)

\* what the handler decides for a message and the catalog's answer to it: the
\* next-page uploads it calls for and the completions it reports
PaginationDecision(page, import_id, r) ==
    IF page = NoPage \/ r.kind = "raise"
    THEN [enqueues |-> <<>>, completes |-> <<>>]
    ELSE IF Truthy(r)
    THEN [enqueues |-> IF r.n >= FullPage
                       THEN <<[page |-> page + 1, import_id |-> import_id]>>
                       ELSE <<>>,
          completes |-> <<>>]
    ELSE [enqueues |-> <<>>,
          completes |-> IF import_id # NoImport THEN <<COMPLETED>> ELSE <<>>]

\* message parsing, the catalog fetch and the item loop: one invocation of
\* the handler.  (The count of invocations, `invoked`, is left to the
\* specification: it is a history variable.)
Fetch(w, results) ==
    /\ worker[w].pc = "handler"
    /\ LET wk == [worker[w] EXCEPT !.handlerInvoked = TRUE]
       IN IF wk.page = NoPage
          THEN worker' = [worker EXCEPT ![w] = OnReturn(wk)]
          ELSE \E r \in results, trackOk \in BOOLEAN :
                 LET got == [wk EXCEPT !.fetch = r]
                     res == ProcessShows(r, trackOk)
                     done == [got EXCEPT !.upserted = res.upserted,
                                         !.upsertCalls = res.upsertCalls,
                                         !.idUpdates = res.idUpdates,
                                         !.success_count = res.success_count,
                                         !.retryKeys = res.retryKeys]
                 IN worker' = [worker EXCEPT ![w] =
                      IF r.kind = "raise" THEN FetchBlockRaises(got)
                      ELSE IF Truthy(r)
                      THEN IF wk.import_id # NoImport
                           THEN [done EXCEPT !.pc = "prog_read",
                                             !.progress = Append(@, TRUE)]
                           ELSE AfterProgress(done)
                      ELSE IF wk.import_id # NoImport
                           THEN [got EXCEPT !.pc = "comp_read",
                                            !.completes = Append(@, COMPLETED)]
                           ELSE OnReturn(got)]
    /\ UNCHANGED <<health, details, calls, applied, tracking, queue, deadLetters, starter, generated>>

\* an invocation of the handler, not counted
UncountedFetch(w, results) == Fetch(w, results) /\ UNCHANGED invoked

\* an invocation of the handler, counted for its message
CountedFetch(w, results) ==
    /\ Fetch(w, results)
    /\ invoked' = [invoked EXCEPT ![worker[w].msg] = @ + 1]

\* update_import_progress, first half: get_entities; a store failure or a
\* missing entity ends the call
UpdateProgressRead(w) ==
    /\ worker[w].pc \in {"prog_read", "fail_read"}
    /\ LET wk == worker[w]
       IN \E ok \in BOOLEAN :
            worker' = [worker EXCEPT ![w] =
              IF ok /\ tracking[wk.import_id] # NoEntity
              THEN [wk EXCEPT !.entity = tracking[wk.import_id],
                              !.pc = IF wk.pc = "prog_read" THEN "prog_write"
                                     ELSE "fail_write"]
              ELSE AfterUpdate(wk)]
    /\ UNCHANGED <<invoked, health, details, calls, applied, tracking, queue, deadLetters, starter, generated>>

\* update_import_progress, second half: upsert_entity of the whole entity
UpdateProgressWrite(w) ==
    /\ worker[w].pc \in {"prog_write", "fail_write"}
    /\ LET wk == worker[w]
           new == update_import_progress(wk.entity, wk.page, wk.pc = "prog_write")
       IN \E ok \in BOOLEAN :
            /\ tracking' = IF ok THEN [tracking EXCEPT ![wk.import_id] = new]
                           ELSE tracking
            /\ worker' = [worker EXCEPT ![w] = AfterUpdate([wk EXCEPT !.entity = NoEntity])]
    /\ UNCHANGED <<invoked, health, details, calls, applied, queue, deadLetters, starter, generated>>

\* complete_bulk_import, first half: get_entities
CompleteRead(w) ==
    /\ worker[w].pc = "comp_read"
    /\ LET wk == worker[w]
       IN \E ok \in BOOLEAN :
            worker' = [worker EXCEPT ![w] =
              IF ok /\ tracking[wk.import_id] # NoEntity
              THEN [wk EXCEPT !.entity = tracking[wk.import_id], !.pc = "comp_write"]
              ELSE OnReturn(wk)]
    /\ UNCHANGED <<invoked, health, details, calls, applied, tracking, queue, deadLetters, starter, generated>>

\* complete_bulk_import, second half: upsert_entity of the whole entity
CompleteWrite(w) ==
    /\ worker[w].pc = "comp_write"
    /\ LET wk == worker[w]
           new == complete_bulk_import(wk.entity, COMPLETED)
       IN \E ok \in BOOLEAN :
            /\ tracking' = IF ok THEN [tracking EXCEPT ![wk.import_id] = new]
                           ELSE tracking
            /\ worker' = [worker EXCEPT ![w] = OnReturn([wk EXCEPT !.entity = NoEntity])]
    /\ UNCHANGED <<invoked, health, details, calls, applied, queue, deadLetters, starter, generated>>

\* next_page_message without the import id of the message being processed
next_page_message_uncorrelated(page_number, import_id) ==
    [page |-> page_number + 1, import_id |-> NoImport]

next_page_message(page_number, import_id) ==
    [page |-> page_number + 1, import_id |-> import_id]

\* the upload of the next-page message; its failure is raised inside the
\* fetch block
EnqueueNextPageWith(w, room) ==
    /\ worker[w].pc = "enqueue"
    /\ LET wk == worker[w]
           body == next_page_message(wk.page, wk.import_id)
           called == [wk EXCEPT !.enqueues = Append(@, body)]
       IN \E ok \in BOOLEAN :
            /\ ok => room
            /\ queue' = IF ok THEN Uploaded(body) ELSE queue
            /\ worker' = [worker EXCEPT ![w] =
                 IF ok THEN OnReturn([called EXCEPT !.enqueued = Append(@, NewMsgId)])
                 ELSE FetchBlockRaises(called)]
    /\ UNCHANGED <<invoked, health, details, calls, applied, tracking, deadLetters, starter, generated>>

EnqueueNextPage(w) == EnqueueNextPageWith(w, QueueHasRoom)

\* the upload of the next-page message into a queue with a slot to spare
EnqueueNextPageSpare(w) == EnqueueNextPageWith(w, UploadRoom)

\* ------------------------------------------------------------- transport
\* The entry point left: an exception makes the message visible again, a
\* normal return deletes it unless the acknowledgement is lost
\* (at-least-once delivery).
Finish(w) ==
    /\ worker[w].pc = "finished"
    /\ LET wk == worker[w]
       IN \E lost \in BOOLEAN :
            /\ lost => wk.result # "raised"
            /\ queue' = [queue EXCEPT ![wk.msg].state =
                           IF wk.result = "raised" \/ lost THEN "visible" ELSE "deleted"]
    /\ worker' = [worker EXCEPT ![w] = IdleWorker]
    /\ UNCHANGED <<invoked, health, details, calls, applied, tracking, deadLetters, starter, generated>>

\* ------------------------------------------------------ show-details path
\* get_show_details of the catalog: an exception, a null, or a show whose
\* database session raises `upsertFailures` times in a row
DetailResults ==
    { [kind |-> "raise", upsertFailures |-> 0],
      [kind |-> "none", upsertFailures |-> 0],
      [kind |-> "show", upsertFailures |-> 0],
      [kind |-> "show", upsertFailures |-> 1],
      [kind |-> "show", upsertFailures |-> UpsertMaxAttempts] }

\* handle_show_details without the test for a missing show_id
handle_show_details_unchecked(wk, show, trackOk) ==
    LET got == [wk EXCEPT !.handlerInvoked = TRUE, !.fetched = TRUE]
    IN  IF show.kind = "raise" THEN HandlerRaises(got) ELSE OnReturn(got)

\* handle_show_details
handle_show_details(wk, show, trackOk) ==
    LET inv == [wk EXCEPT !.handlerInvoked = TRUE]
        got == [inv EXCEPT !.fetched = TRUE]
        up == with_retry(UpsertMaxAttempts, show.upsertFailures, trackOk)
        stored == [got EXCEPT !.upsertCalls = up.calls]
    IN  IF wk.show_id = NoShow THEN OnReturn(inv)
        ELSE IF show.kind = "raise" THEN HandlerRaises(got)
        ELSE IF show.kind = "none" THEN OnReturn(got)
        ELSE IF up.raised THEN HandlerRaises(stored)
        ELSE OnReturn(stored)

\* send_to_dead_letter_queue for a show-details message
DeadLetterDetails(wk, ok) ==
    LET envelope ==
          [queue |-> get_dead_letter_queue_name(SHOW_DETAILS_OP),
           original_message |-> [show_id |-> wk.show_id],
           operation_type |-> SHOW_DETAILS_OP,
           failure_reason |-> IF wk.dequeue_count > max_retry_attempts
                              THEN "Max retry attempts exceeded" ELSE "error",
           dequeue_count |-> wk.dequeue_count]
    IN  [wk EXCEPT !.pc = "finished", !.result = "false",
                   !.dlqCalls = @ + 1,
                   !.dlq = IF ok THEN @ \cup {envelope} ELSE @]

\* One invocation of get_details: the transport hands over the message with
\* its dequeue count raised, the ShowService is built (initOk) and
\* get_show_details runs handle_show_details under
\* handle_queue_message_with_retry.
GetDetails ==
    /\ details.state = "visible"
    /\ details.pc = "idle"
    /\ Deliveries < MaxDeliveries
    /\ \E initOk \in BOOLEAN, trackOk \in BOOLEAN, dlqOk \in BOOLEAN,
          show \in DetailResults :
         LET d0 == [IdleDetails EXCEPT !.state = "invisible",
                                       !.show_id = details.show_id,
                                       !.dequeue_count = details.dequeue_count + 1,
                                       !.dlq = details.dlq]
             entered == IF initOk
                        THEN BeforeHandler([d0 EXCEPT !.called = TRUE], trackOk)
                        ELSE [d0 EXCEPT !.pc = "finished", !.result = "raised"]
             handled == IF entered.pc = "handler"
                        THEN handle_show_details(entered, show, trackOk)
                        ELSE entered
         IN  /\ ~initOk => (trackOk /\ dlqOk /\ show.kind = "none")
             /\ details' = IF handled.pc = "deadletter"
                            THEN DeadLetterDetails(handled, dlqOk)
                            ELSE handled
    /\ UNCHANGED <<invoked, health, tracking, queue, deadLetters, worker, starter, generated,
                   calls, applied>>

\* get_details left: an exception makes the message visible again, a normal
\* return deletes it unless the acknowledgement is lost
FinishDetails ==
    /\ details.pc = "finished"
    /\ \E lost \in BOOLEAN :
         /\ lost => details.result # "raised"
         /\ details' = [IdleDetails EXCEPT
                          !.state = IF details.result = "raised" \/ lost
                                    THEN "visible" ELSE "deleted",
                          !.show_id = details.show_id,
                          !.dequeue_count = details.dequeue_count,
                          !.dlq = details.dlq]
    /\ UNCHANGED <<invoked, health, tracking, queue, deadLetters, worker, starter, generated,
                   calls, applied>>

\* ------------------------------------------------- retry_failed_operation
\* operation_data handed to retry_failed_operation: any dictionary (a page
\* message, a show-details message)
OperationData ==
    { [page |-> 1, import_id |-> "bulk_import_a", show_id |-> NoShow],
      [page |-> NoPage, import_id |-> NoImport, show_id |-> 5] }

OperationTypes == {INDEX_PAGE_OP, SHOW_DETAILS_OP, DATABASE_WRITE_OP}

\* retry_failed_operation reporting success although the upload raised
retry_failed_operation_optimistic(operation_type, operation_data, ok) ==
    IF operation_type = INDEX_PAGE_OP
    THEN [result |-> TRUE, uploads |-> <<[queue_name |-> INDEX_QUEUE,
                                          message |-> operation_data]>>]
    ELSE IF operation_type = SHOW_DETAILS_OP
    THEN [result |-> TRUE, uploads |-> <<[queue_name |-> DETAILS_QUEUE,
                                          message |-> operation_data]>>]
    ELSE [result |-> FALSE, uploads |-> <<>>]

\* retry_failed_operation(operation_type, operation_data); ok: the upload
\* succeeds.  The data is uploaded as it is to the queue of the operation type.
retry_failed_operation(operation_type, operation_data, ok) ==
    IF operation_type = INDEX_PAGE_OP
    THEN [result |-> ok, uploads |-> <<[queue_name |-> INDEX_QUEUE,
                                        message |-> operation_data]>>]
    ELSE IF operation_type = SHOW_DETAILS_OP
    THEN [result |-> ok, uploads |-> <<[queue_name |-> DETAILS_QUEUE,
                                        message |-> operation_data]>>]
    ELSE [result |-> FALSE, uploads |-> <<>>]

\* A call of retry_failed_operation and the arrival of its message.  The
\* upload is one queue operation and commutes with the steps of a handler, so
\* it is taken between handler invocations only.  logged: the call and what
\* it returned are kept in `applied`.
RetryFailedOperationCall(logged) ==
    /\ \A w \in Workers : worker[w].pc = "idle"
    /\ details.pc = "idle"
    /\ \E operation_type \in OperationTypes, data \in OperationData, ok \in BOOLEAN :
      LET r == retry_failed_operation(operation_type, data, ok)
          toIndex == ok /\ r.uploads # <<>> /\ r.uploads[1].queue_name = INDEX_QUEUE
          toDetails == ok /\ r.uploads # <<>> /\ r.uploads[1].queue_name = DETAILS_QUEUE
      IN  /\ toIndex => QueueHasRoom
          /\ toDetails => details.state = "none"
          /\ queue' = IF toIndex THEN Uploaded(r.uploads[1].message) ELSE queue
          /\ details' = IF toDetails
                         THEN [IdleDetails EXCEPT
                                 !.state = "visible",
                                 !.show_id = r.uploads[1].message.show_id]
                         ELSE details
          /\ applied' = IF logged
                         THEN [f |-> "retry_failed_operation",
                               operation_type |-> operation_type,
                               operation_data |-> data, ok |-> ok,
                               result |-> r.result, uploads |-> r.uploads,
                               arrived |-> IF toIndex THEN NewMsgId ELSE 0]
                         ELSE applied
          /\ UNCHANGED <<invoked, health, tracking, deadLetters, worker, starter, generated, calls>>

RetryFailedOperation == RetryFailedOperationCall(FALSE)

ApplyRetryFailedOperation == RetryFailedOperationCall(TRUE)

\* the steps of the workers W, the catalog answering from `results`
NextOf(W, results) ==
    \/ StartTrack
    \/ StartEnqueue
    \/ \E w \in W, m \in MsgIds : Deliver(w, m)
    \/ \E w \in W : UncountedFetch(w, results)
    \/ \E w \in W : UpdateProgressRead(w)
    \/ \E w \in W : UpdateProgressWrite(w)
    \/ \E w \in W : CompleteRead(w)
    \/ \E w \in W : CompleteWrite(w)
    \/ \E w \in W : EnqueueNextPage(w)
    \/ \E w \in W : SendToDeadLetterQueue(w)
    \/ \E w \in W : Finish(w)

\* requests to the start endpoint
EndpointNext ==
    \/ StartGetAll
    \/ StartEnqueue

EndpointSpec == Init /\ [][EndpointNext]_vars

\* one worker, the invocations of the handler counted per message
RedeliveryNext ==
    \/ StartTrack
    \/ StartEnqueue
    \/ \E m \in MsgIds : Deliver("w1", m)
    \/ CountedFetch("w1", CoreFetchResults)
    \/ UpdateProgressRead("w1")
    \/ UpdateProgressWrite("w1")
    \/ CompleteRead("w1")
    \/ CompleteWrite("w1")
    \/ EnqueueNextPage("w1")
    \/ SendToDeadLetterQueue("w1")
    \/ Finish("w1")

RedeliverySpec == Init /\ [][RedeliveryNext]_vars

\* one worker, one run, the chain continued into the spare slot of the queue
ChainNext ==
    \/ StartTrack
    \/ StartEnqueue
    \/ \E m \in MsgIds : Deliver("w1", m)
    \/ UncountedFetch("w1", CoreFetchResults)
    \/ UpdateProgressRead("w1")
    \/ UpdateProgressWrite("w1")
    \/ CompleteRead("w1")
    \/ CompleteWrite("w1")
    \/ EnqueueNextPageSpare("w1")
    \/ SendToDeadLetterQueue("w1")
    \/ Finish("w1")

ChainSpec == Init /\ [][ChainNext]_vars

\* a step of the invocation worker w is in: a handler invocation runs to its
\* end once the transport has started it
HandlerStep(w) ==
    \/ UncountedFetch(w, CoreFetchResults)
    \/ UpdateProgressRead(w)
    \/ UpdateProgressWrite(w)
    \/ CompleteRead(w)
    \/ CompleteWrite(w)
    \/ EnqueueNextPage(w)
    \/ SendToDeadLetterQueue(w)
    \/ Finish(w)

\* the start of a run at the default page
StartTrackDefault ==
    /\ starter.pc \in {"idle", "returned", "raised"}
    /\ RegisterRun(0)
    /\ UNCHANGED <<invoked, health, details, calls, applied, queue, deadLetters, worker>>

\* one worker, runs started at the default page, every invocation running to
\* its end
LiveNext ==
    \/ StartTrackDefault
    \/ StartEnqueue
    \/ \E m \in MsgIds : Deliver("w1", m)
    \/ HandlerStep("w1")

LiveSpec == Init /\ [][LiveNext]_vars /\ WF_vars(HandlerStep("w1"))

\* concurrent workers; pages without malformed or failing items
Next == NextOf(Workers, CoreFetchResults)

Spec == Init /\ [][Next]_vars

\* one worker; every catalog response
PageNext == NextOf({"w1"}, FetchResults)

PageSpec == Init /\ [][PageNext]_vars

\* one worker; the catalog answering with pages that hold malformed and
\* failing items, and with the empty page that ends the run
ItemFetchResults ==
    {r \in FetchResults : r.prefix # <<>> \/ (r.kind = "list" /\ r.n = 0)}

ItemNext == NextOf({"w1"}, ItemFetchResults)

ItemSpec == Init /\ [][ItemNext]_vars

\* --------------------------------------------- direct calls of the tracker
\* The methods of MonitoringService called by concurrent callers.  Of a call
\* that ended (pc "done") the outcome is kept until its caller makes the next
\* one: whether it wrote, by how much the stored counters rose at its write
\* (rise), whether it raised, what it returned.
CanCall(c) == calls[c].pc \in {"idle", "done"}

Total(entity) ==
    IF entity = NoEntity THEN 0 ELSE entity.CompletedPages + entity.FailedPages

\* start_bulk_import_tracking (start_page left at its default): one upsert,
\* not guarded; it overwrites a record that exists
StartBulkImportTracking(c) ==
    /\ CanCall(c)
    /\ \E i \in ImportIds, ok \in BOOLEAN :
         /\ tracking' = IF ok
                        THEN [tracking EXCEPT ![i] = start_bulk_import_tracking(0, 0)]
                        ELSE tracking
         /\ calls' = [d \in Callers |->
               IF d = c
               THEN [IdleCall EXCEPT !.pc = "done",
                                     !.method = "start_bulk_import_tracking",
                                     !.wrote = ok, !.raised = ~ok]
               ELSE IF ok /\ calls[d].pc = "write" /\ calls[d].import_id = i
                    THEN [calls[d] EXCEPT !.overlapped = TRUE]
                    ELSE calls[d]]
    /\ UNCHANGED <<invoked, health, queue, deadLetters, worker, starter, generated, details, applied>>

\* ------------------------------------------------------ update_data_health
\* a value or threshold argument: a number, or (value) a string that is no
\* number, or (threshold) None
Num(n) == [kind |-> "num", v |-> n]
NotANumber == [kind |-> "str", v |-> 0]
NoneArg == [kind |-> "none", v |-> 0]
HealthValues == {Num(0), Num(1), Num(5), NotANumber}
Thresholds == {NoneArg, Num(0), Num(2)}

DigitChar(d) ==
    CASE d = 0 -> "0" [] d = 1 -> "1" [] d = 2 -> "2" [] d = 3 -> "3"
      [] d = 4 -> "4" [] d = 5 -> "5" [] d = 6 -> "6" [] d = 7 -> "7"
      [] d = 8 -> "8" [] d = 9 -> "9"

RECURSIVE StrNat(_)
StrNat(n) == IF n < 10 THEN <<DigitChar(n)>>
             ELSE StrNat(n \div 10) \o <<DigitChar(n % 10)>>

\* a float with at most two decimals, kept as its number of hundredths
Float(h) == [kind |-> "float", v |-> h]

\* a number in hundredths
Hundredths(x) == IF x.kind = "float" THEN x.v ELSE 100 * x.v

\* str of such a float: 19.0, 1.9, 0.95
StrFloat(h) ==
    StrNat(h \div 100) \o <<".">> \o
        (IF h % 10 = 0 THEN <<DigitChar((h % 100) \div 10)>>
         ELSE <<DigitChar((h % 100) \div 10), DigitChar(h % 10)>>)

\* str(x)
Str(x) ==
    IF x.kind = "str" THEN <<"n", "/", "a">>
    ELSE IF x.kind = "none" THEN <<"N", "o", "n", "e">>
    ELSE IF x.kind = "float" THEN StrFloat(x.v)
    ELSE IF x.v < 0 THEN <<"-">> \o StrNat(0 - x.v)
    ELSE StrNat(x.v)

\* the stored Threshold of a record without one
NoThreshold == <<"None">>

\* `if threshold`: None and 0 are falsy
ThresholdTruthy(threshold) ==
    threshold.kind \in {"num", "float"} /\ threshold.v # 0

\* the entity update_data_health upserts
update_data_health(value, threshold) ==
    [Value |-> Str(value),
     Threshold |-> IF ThresholdTruthy(threshold) THEN Str(threshold) ELSE NoThreshold,
     IsHealthy |-> \/ threshold.kind = "none"
                   \/ /\ value.kind \in {"num", "float"}
                      /\ Hundredths(value) <= Hundredths(threshold)]

\* track_retry_attempt: one upsert into the retry table, not guarded
TrackRetryAttempt(c) ==
    /\ CanCall(c)
    /\ \E ok \in BOOLEAN :
         calls' = [calls EXCEPT ![c] =
                     [IdleCall EXCEPT !.pc = "done", !.method = "track_retry_attempt",
                                      !.wrote = ok, !.raised = ~ok]]
    /\ UNCHANGED <<invoked, health, tracking, queue, deadLetters, worker, starter, generated,
                   details, applied>>

\* update_data_health: one upsert into the health table, not guarded
UpdateDataHealthOf(c, metrics, values, thresholds) ==
    /\ CanCall(c)
    /\ \E metric_name \in metrics, value \in values, threshold \in thresholds,
          ok \in BOOLEAN :
         /\ health' = IF ok
                      THEN [health EXCEPT ![metric_name] =
                                update_data_health(value, threshold)]
                      ELSE health
         /\ calls' = [calls EXCEPT ![c] =
                     [IdleCall EXCEPT !.pc = "done", !.method = "update_data_health",
                                      !.wrote = ok, !.raised = ~ok]]
    /\ UNCHANGED <<invoked, tracking, queue, deadLetters, worker, starter, generated,
                   details, applied>>

\* the call get_updates makes when it failed
UpdateDataHealth(c) ==
    UpdateDataHealthOf(c, {"updates_failed"}, {Num(1)}, {NoneArg})

\* GetImportStatus letting the exception of the store escape
GetImportStatus_raising(c) ==
    /\ CanCall(c)
    /\ \E i \in ImportIds, ok \in BOOLEAN :
         calls' = [calls EXCEPT ![c] =
                     [IdleCall EXCEPT !.pc = "done", !.method = "get_import_status",
                                      !.import_id = i, !.failed = ~ok,
                                      !.raised = ~ok,
                                      !.returned = IF ok THEN tracking[i] ELSE NoEntity]]
    /\ UNCHANGED <<invoked, health, tracking, queue, deadLetters, worker, starter, generated,
                   details, applied>>

\* get_import_status: the stored record, or {} (NoEntity) when there is none
\* or the store raises (failed)
GetImportStatus(c) ==
    /\ CanCall(c)
    /\ \E i \in ImportIds, ok \in BOOLEAN :
         calls' = [calls EXCEPT ![c] =
                     [IdleCall EXCEPT !.pc = "done", !.method = "get_import_status",
                                      !.import_id = i, !.failed = ~ok,
                                      !.returned = IF ok THEN tracking[i] ELSE NoEntity]]
    /\ UNCHANGED <<invoked, health, tracking, queue, deadLetters, worker, starter, generated,
                   details, applied>>

\* TrackerRead going on with a fresh record when none is stored
TrackerRead_creating(c) ==
    /\ CanCall(c)
    /\ \E i \in ImportIds, page \in StartPages :
         calls' = [calls EXCEPT ![c] =
               [IdleCall EXCEPT !.pc = "write", !.method = "update_import_progress",
                                !.import_id = i, !.page = page,
                                !.entity = IF tracking[i] # NoEntity THEN tracking[i]
                                           ELSE start_bulk_import_tracking(0, 0)]]
    /\ UNCHANGED <<invoked, health, tracking, queue, deadLetters, worker, starter, generated,
                   details, applied>>

\* update_import_progress / complete_bulk_import, first half: get_entities;
\* a store failure or a missing record ends the call
TrackerRead(c) ==
    /\ CanCall(c)
    /\ \E i \in ImportIds, ok \in BOOLEAN,
          method \in {"update_import_progress", "complete_bulk_import"},
          page \in StartPages, success \in BOOLEAN :
         /\ Total(tracking[i]) < MaxUpdates
         /\ method = "complete_bulk_import" => (page = 0 /\ success)
         /\ calls' = [calls EXCEPT ![c] =
               IF ok /\ tracking[i] # NoEntity
               THEN [IdleCall EXCEPT !.pc = "write", !.method = method,
                                     !.import_id = i, !.page = page,
                                     !.success = success, !.entity = tracking[i]]
               ELSE [IdleCall EXCEPT !.pc = "done", !.method = method]]
    /\ UNCHANGED <<invoked, health, tracking, queue, deadLetters, worker, starter, generated,
                   details, applied>>

\* second half: upsert_entity of the whole entity read; the calls of other
\* callers that have read the same record and not yet written are overlapped
TrackerWrite(c) ==
    /\ calls[c].pc = "write"
    /\ LET call == calls[c]
           new == IF call.method = "update_import_progress"
                  THEN update_import_progress(call.entity, call.page, call.success)
                  ELSE complete_bulk_import(call.entity, COMPLETED)
       IN \E ok \in BOOLEAN :
            /\ tracking' = IF ok THEN [tracking EXCEPT ![call.import_id] = new]
                           ELSE tracking
            /\ calls' = [d \in Callers |->
                  IF d = c
                  THEN [IdleCall EXCEPT
                          !.pc = "done", !.method = call.method, !.wrote = ok,
                          !.overlapped = call.overlapped,
                          !.rise = IF ok
                                   THEN Total(new) - Total(tracking[call.import_id])
                                   ELSE 0]
                  ELSE IF ok /\ calls[d].pc = "write"
                          /\ calls[d].import_id = call.import_id
                       THEN [calls[d] EXCEPT !.overlapped = TRUE]
                       ELSE calls[d]]
    /\ UNCHANGED <<invoked, health, queue, deadLetters, worker, starter, generated, details, applied>>

\* the two-step methods are called by every caller; the one-step methods
\* have no step to interleave with and are called by the first caller
\* (update_data_health, which writes to a table of its own, is in HealthNext)
TrackerNext ==
    \/ StartBulkImportTracking("c1")
    \/ TrackRetryAttempt("c1")
    \/ GetImportStatus("c1")
    \/ \E c \in Callers : TrackerRead(c)
    \/ \E c \in Callers : TrackerWrite(c)

TrackerSpec == Init /\ [][TrackerNext]_vars

\* update_data_health called with every metric, value and threshold
HealthNext ==
    \/ \E c \in Callers : UpdateDataHealthOf(c, Metrics, HealthValues, Thresholds)
    \/ UpdateDataHealth("c1")

HealthSpec == Init /\ [][HealthNext]_vars

\* -------------------------------------------------------------- get_updates
\* how many updates the catalog reports (those whose product with 0.95 is a
\* float of at most two decimals)
UpdateCounts == {1, 2, 20}

\* len(updates) * 0.95
SuccessThreshold(n) == Float(95 * n)

\* One call of get_updates.  The catalog raises or reports n updates; for
\* `queued` of them queue_show_details returned, and for success_count of
\* those the ID-table update returned too (the per-item failures are caught
\* in the loop).  The health update is inside the try: a failure of the store
\* there leads into the except branch like a failure of the catalog, where
\* updates_failed is recorded (not guarded either) before the exception is
\* raised again.  The uploads to the details queue are kept as their count.
GetUpdates ==
    \E fetchOk \in BOOLEAN, n \in UpdateCounts \cup {0},
       storeOk \in BOOLEAN, failureStoreOk \in BOOLEAN :
      \E success_count \in 0..n : \E queued \in {success_count, n} :
        LET reached == fetchOk /\ n > 0
            reported == reached /\ storeOk
            raised == ~fetchOk \/ (reached /\ ~storeOk)
        IN  /\ ~fetchOk => (n = 0 /\ storeOk)
            /\ ~raised => failureStoreOk
            /\ (fetchOk /\ n = 0) => storeOk
            /\ health' =
                 [health EXCEPT
                    !["updates_processed"] =
                        IF reported
                        THEN update_data_health(Num(success_count), SuccessThreshold(n))
                        ELSE @,
                    !["updates_failed"] =
                        IF raised /\ failureStoreOk
                        THEN update_data_health(Num(1), NoneArg)
                        ELSE @]
            /\ applied' = [f |-> "get_updates", fetched |-> fetchOk, n |-> n,
                           queued |-> queued, success_count |-> success_count,
                           reported |-> reported, raised |-> raised]
            /\ UNCHANGED <<invoked, tracking, queue, deadLetters, worker, starter,
                           generated, details, calls>>

UpdatesNext == GetUpdates

UpdatesSpec == Init /\ [][UpdatesNext]_vars

\* ------------------------------------- direct calls of the retry coordinator
\* a function wrapped by with_retry(operation_type, max_attempts) is called;
\* it raises `failures` times in a row (max_attempts 0: the argument is left
\* out)
ApplyWithRetry ==
    /\ \E operation_type \in {DATABASE_WRITE_OP, STORAGE_WRITE_OP},
          max_attempts \in 0..MaxAttempts, failures \in 0..(MaxAttempts + 1),
          trackOk \in BOOLEAN :
         applied' = [f |-> "with_retry", operation_type |-> operation_type,
                     max_attempts |-> max_attempts, failures |-> failures,
                     trackOk |-> trackOk,
                     result |-> with_retry(max_attempts, failures, trackOk)]
    /\ UNCHANGED <<invoked, health, tracking, queue, deadLetters, worker, starter, generated,
                   details, calls>>

ApplyBackoff ==
    /\ \E attempt \in 1..MaxAttempts :
         applied' = [f |-> "calculate_backoff_delay", attempt |-> attempt,
                     delay |-> calculate_backoff_delay(attempt)]
    /\ UNCHANGED <<invoked, health, tracking, queue, deadLetters, worker, starter, generated,
                   details, calls>>

\* operation types handed to get_dead_letter_queue_name: any string
DeadLetterOperationTypes ==
    { INDEX_PAGE_OP, SHOW_DETAILS_OP, DATABASE_WRITE_OP, STORAGE_WRITE_OP,
      <<>>,
      <<"I","N","D","E","X","_","P","A","G","E">>,
      <<"r","e","I","n","d","e","X">>,
      <<"S","h","o","w","_","D","E","T","A","I","L","S">>,
      <<"d","e","t","a","i","l","s","_","i","n","d","e","x">>,
      <<"i","n","d","e","x","_","d","e","t","a","i","l","s">>,
      <<"d","e","t","a","i","l">>,
      <<"i","n","d","e","_","x">> }

ApplyDeadLetterName ==
    /\ \E operation_type \in DeadLetterOperationTypes :
         applied' = [f |-> "get_dead_letter_queue_name",
                     operation_type |-> operation_type,
                     name |-> get_dead_letter_queue_name(operation_type)]
    /\ UNCHANGED <<invoked, health, tracking, queue, deadLetters, worker, starter, generated,
                   details, calls>>

RetryNext ==
    \/ ApplyWithRetry
    \/ ApplyBackoff
    \/ ApplyDeadLetterName
    \/ ApplyRetryFailedOperation

RetrySpec == Init /\ [][RetryNext]_vars

\* both queues fed by retry_failed_operation; one worker per queue
RequeueNext ==
    \/ RetryFailedOperation
    \/ GetDetails
    \/ FinishDetails
    \/ \E m \in MsgIds : Deliver("w1", m)
    \/ UncountedFetch("w1", CoreFetchResults)
    \/ UpdateProgressRead("w1")
    \/ CompleteRead("w1")
    \/ EnqueueNextPage("w1")
    \/ SendToDeadLetterQueue("w1")
    \/ Finish("w1")

RequeueSpec == Init /\ [][RequeueNext]_vars



\* ================================================================== claims
Finished(w) == worker[w].pc = "finished"

\* the envelopes written for message m
Envelopes(m) == {e \in deadLetters : e.original_message_id = m}

\* the envelope a delivery writes
EnvelopeOf(wk) ==
    {e \in deadLetters : e.original_message_id = wk.msg
                         /\ e.dequeue_count = wk.dequeue_count}

\* C1: a delivery whose dequeue_count exceeds max_retry_attempts never invokes
\* the handler (no fetch is made either); when handle_queue_message_with_retry
\* has returned it has made exactly one send_to_dead_letter_queue call, for
\* the index dead-letter queue, and returned False.
C1_ExceededNeverInvokes ==
    \A w \in Workers :
        LET wk == worker[w]
        IN  (wk.called /\ wk.dequeue_count > max_retry_attempts) =>
              /\ ~wk.handlerInvoked
              /\ wk.fetch.kind = "notcalled"
              /\ Finished(w) =>
                   /\ wk.result = "false"
                   /\ wk.dlqCalls = 1
                   /\ wk.dlqWritten = Cardinality(EnvelopeOf(wk))
                   /\ \A e \in EnvelopeOf(wk) :
                        /\ e.queue = INDEX_QUEUE \o dead_letter_queue_suffix
                        /\ e.failure_reason = "Max retry attempts exceeded"

C1_Witness ==
    \E w \in Workers :
        /\ Finished(w) /\ worker[w].called
        /\ worker[w].dequeue_count > max_retry_attempts
        /\ worker[w].result = "false"
        /\ worker[w].dlqWritten = 1

\* C2: when the handler raises on the delivery with dequeue_count equal to
\* max_retry_attempts, handle_queue_message_with_retry makes one
\* send_to_dead_letter_queue call and returns False: it does not re-raise, so
\* the entry point returns normally and the transport's acknowledgement
\* consumes the message.
C2_FinalAttemptDeadLetters ==
    \A w \in Workers :
        LET wk == worker[w]
        IN  (Finished(w) /\ wk.handlerRaised
             /\ wk.dequeue_count = max_retry_attempts) =>
              /\ wk.result = "false"
              /\ wk.dlqCalls = 1
              /\ wk.dlqWritten = Cardinality(EnvelopeOf(wk))

C2_Witness ==
    \E w \in Workers :
        /\ Finished(w) /\ worker[w].handlerRaised
        /\ worker[w].dequeue_count = max_retry_attempts
        /\ worker[w].result = "false"
        /\ worker[w].dlqWritten = 1

\* C3: when the handler raises on a delivery with dequeue_count below
\* max_retry_attempts, handle_queue_message_with_retry re-raises and no
\* send_to_dead_letter_queue call is made: no envelope exists for the delivery.
C3_EarlyAttemptReraises ==
    \A w \in Workers :
        LET wk == worker[w]
        IN  (wk.handlerRaised /\ wk.dequeue_count < max_retry_attempts) =>
              /\ wk.pc = "finished"
              /\ wk.result = "raised"
              /\ wk.dlqCalls = 0
              /\ EnvelopeOf(wk) = {}

C3_Witness ==
    \E w \in Workers :
        /\ Finished(w) /\ worker[w].handlerRaised
        /\ worker[w].dequeue_count = 2
        /\ worker[w].result = "raised"

\* a message whose handling is over: no worker holds it
Settled(m) == queue[m].state \in {"visible", "deleted"}

\* number of deliveries of m made with dequeue_count >= max_retry_attempts
FinalDeliveries(m) ==
    IF queue[m].dequeue_count < max_retry_attempts THEN 0
    ELSE queue[m].dequeue_count - max_retry_attempts + 1

\* C4 as stated: over its whole delivery history a message that took the
\* dead-letter path has exactly one envelope, and no message ever has more
\* than one.
C4_ExactlyOneEnvelope ==
    \A m \in MsgIds :
        /\ Cardinality(Envelopes(m)) <= 1
        /\ (Settled(m) /\ queue[m].dlqSends > 0) => Cardinality(Envelopes(m)) = 1

\* C4 amended: a message gets at most one envelope per delivery made with
\* dequeue_count >= max_retry_attempts (one per send_to_dead_letter_queue
\* call, none when the write fails), every envelope is on the dead-letter
\* queue of the operation type, and deliveries with a lower dequeue_count
\* write none.
C4_AtMostOnePerFinalDelivery ==
    \A m \in MsgIds :
        /\ Cardinality(Envelopes(m)) <= queue[m].dlqSends
        /\ queue[m].dlqSends <= FinalDeliveries(m)
        /\ \A e \in Envelopes(m) :
             /\ e.dequeue_count >= max_retry_attempts
             /\ e.dequeue_count <= queue[m].dequeue_count
             /\ e.queue = get_dead_letter_queue_name(e.operation_type)
             /\ e.queue = INDEX_QUEUE \o dead_letter_queue_suffix
        /\ \A e, f \in Envelopes(m) : e.dequeue_count = f.dequeue_count => e = f

C4_Witness ==
    \E m \in MsgIds :
        /\ queue[m].state = "deleted"
        /\ queue[m].dlqSends = 1
        /\ Cardinality(Envelopes(m)) = 1

\* C5 as stated: a run whose start returned and whose status is IN_PROGRESS
\* has a page message queued or being processed.
Started(i) == starter.returned = i
InFlight(i) ==
    \E m \in MsgIds : /\ queue[m].state \in {"visible", "invisible"}
                      /\ queue[m].import_id = i
C5_NoOrphanedRun ==
    \A i \in ImportIds :
        (Started(i) /\ tracking[i].Status = IN_PROGRESS) => InFlight(i)

\* C6 as stated: once the stored status is COMPLETED or FAILED no step
\* changes it.
C6_TerminalStatusKept ==
    [][\A i \in ImportIds :
          tracking[i].Status \in {COMPLETED, FAILED} =>
              tracking'[i].Status = tracking[i].Status]_vars

\* C7: start_get_all_shows registers the run before it enqueues -- while the
\* upload is still to come the record exists with status IN_PROGRESS and both
\* counters 0, and no message of the run exists -- and when it has returned
\* it has returned the non-empty import_id it registered and made exactly one
\* upload, of {page: page, import_id}, which is the run's first message.
C7_StartRegistersThenEnqueues ==
    /\ starter.pc = "enqueue" =>
         /\ starter.import_id # NoImport
         /\ tracking[starter.import_id].Status = IN_PROGRESS
         /\ tracking[starter.import_id].CompletedPages = 0
         /\ tracking[starter.import_id].FailedPages = 0
         /\ starter.enqueues = <<>>
         /\ \A m \in MsgIds : queue[m].import_id # starter.import_id
    /\ starter.pc = "returned" =>
         /\ starter.returned # NoImport
         /\ starter.returned = starter.import_id
         /\ tracking[starter.returned] # NoEntity
         /\ starter.enqueues =
              <<[page |-> starter.page, import_id |-> starter.returned]>>
         /\ \E m \in MsgIds :
              /\ queue[m].page = starter.page
              /\ queue[m].import_id = starter.returned
              /\ \A k \in MsgIds :
                   (k < m /\ queue[k].state # "none") =>
                       queue[k].import_id # starter.returned

C7_Witness ==
    /\ starter.pc = "returned"
    /\ starter.page = 1
    /\ queue[1].state = "visible"
    /\ queue[1].dequeue_count = 0
    /\ queue[1].page = 1

\* C8: a handler whose fetch returned at least FullPage items makes exactly
\* one upload, of {page: page + 1, import_id}, puts at most that one message
\* on the queue, and never calls complete_bulk_import.
C8_FullPageEnqueuesNext ==
    \A w \in Workers :
        LET wk == worker[w]
        IN  (wk.fetch.kind = "list" /\ wk.fetch.n >= FullPage) =>
              /\ wk.completes = <<>>
              /\ Len(wk.enqueues) <= 1
              /\ Finished(w) =>
                   /\ wk.enqueues =
                        <<[page |-> wk.page + 1, import_id |-> wk.import_id]>>
                   /\ Len(wk.enqueued) <= 1
                   /\ \A k \in 1..Len(wk.enqueued) :
                        /\ queue[wk.enqueued[k]].page = wk.page + 1
                        /\ queue[wk.enqueued[k]].import_id = wk.import_id

C8_Witness ==
    \E w \in Workers :
        /\ Finished(w)
        /\ worker[w].fetch.n = FullPage
        /\ worker[w].result = "true"
        /\ Len(worker[w].enqueued) = 1

\* C9: a handler whose fetch returned a null or an empty list calls
\* complete_bulk_import(import_id, COMPLETED) exactly once, makes no upsert
\* call and no upload.
C9_EmptyPageCompletes ==
    \A w \in Workers :
        LET wk == worker[w]
        IN  (wk.fetch.kind = "none" \/ (wk.fetch.kind = "list" /\ wk.fetch.n = 0)) =>
              /\ wk.completes = <<COMPLETED>>
              /\ wk.upsertCalls = 0
              /\ wk.enqueues = <<>>
              /\ wk.progress = <<>>

C9_Witness ==
    \E w \in Workers :
        /\ Finished(w)
        /\ worker[w].fetch.kind = "list"
        /\ worker[w].fetch.n = 0
        /\ worker[w].result = "true"
        /\ tracking[worker[w].import_id].Status = COMPLETED

\* C10: on a non-empty page the handler calls the upsert for exactly the
\* structured records of the page, whatever the items before them did
\* (null, not a record, persistence failing on every attempt); it reports the
\* page as a success, applies the continuation policy (one upload iff the
\* page is full), and raises only if that upload failed.
C10_ItemFailuresIsolated ==
    \A w \in Workers :
        LET wk == worker[w]
            r == wk.fetch
            records == {k \in 1..Len(r.prefix) : r.prefix[k].kind = "dict"}
        IN  (Finished(w) /\ r.kind = "list" /\ r.n > 0) =>
              /\ wk.upserted = records
              /\ wk.upsertCalls = Cardinality(records) + (r.n - Len(r.prefix))
              /\ wk.progress # <<>> /\ wk.progress[1] = TRUE
              /\ (r.n >= FullPage) <=> (Len(wk.enqueues) = 1)
              /\ (r.n < FullPage) => wk.enqueues = <<>>
              /\ wk.handlerRaised => (wk.enqueues # <<>> /\ wk.enqueued = <<>>)
              /\ ~wk.handlerRaised => wk.result = "true"

C10_Witness ==
    \E w \in Workers :
        LET wk == worker[w]
        IN  /\ Finished(w) /\ wk.result = "true"
            /\ Len(wk.fetch.prefix) > 0
            /\ wk.fetch.prefix[1].upsertFailures = UpsertMaxAttempts
            /\ wk.fetch.n >= FullPage
            /\ wk.success_count < wk.upsertCalls
            /\ wk.upsertCalls < wk.fetch.n
            /\ Len(wk.enqueued) = 1

\* C11: when the catalog fetch raises, the handler makes exactly one tracker
\* call, update_import_progress(import_id, page, success=False), and raises
\* only after that call has returned; it makes no upsert, no upload of a next
\* page and no complete_bulk_import call.
C11_FetchFailureReportedThenRaised ==
    \A w \in Workers :
        LET wk == worker[w]
        IN  wk.fetch.kind = "raise" =>
              /\ wk.progress = <<FALSE>>
              /\ wk.enqueues = <<>>
              /\ wk.completes = <<>>
              /\ wk.upsertCalls = 0
              /\ wk.pc \in {"fail_read", "fail_write"} => ~wk.handlerRaised
              /\ wk.pc \in {"deadletter", "finished"} => wk.handlerRaised
              /\ (Finished(w) /\ wk.dequeue_count < max_retry_attempts) =>
                     wk.result = "raised"

C11_Witness ==
    \E w \in Workers :
        /\ Finished(w)
        /\ worker[w].fetch.kind = "raise"
        /\ worker[w].result = "raised"
        /\ tracking[worker[w].import_id].FailedPages = 1

\* C13 as stated: get_shows_index_page raises only when the catalog fetch for
\* the page raised.
C13_OnlyFetchFailuresPropagate ==
    \A w \in Workers :
        (Finished(w) /\ worker[w].called /\ worker[w].result = "raised") =>
            worker[w].fetch.kind = "raise"

\* C12: a handler invoked for a message without its required field returns
\* normally having done nothing -- handle_index_page for a message without
\* page makes no fetch, no upsert, no tracker call and no upload, and
\* handle_show_details for a message without show_id makes no fetch and no
\* upsert; handle_queue_message_with_retry then returns True with no
\* dead-letter call, so the message is consumed.
C12_MissingFieldConsumed ==
    /\ \A w \in Workers :
         LET wk == worker[w]
         IN  (wk.handlerInvoked /\ wk.page = NoPage) =>
               /\ wk.pc = "finished" /\ wk.result = "true"
               /\ ~wk.handlerRaised
               /\ wk.fetch.kind = "notcalled"
               /\ wk.upsertCalls = 0
               /\ wk.progress = <<>> /\ wk.completes = <<>>
               /\ wk.enqueues = <<>>
               /\ wk.dlqCalls = 0
    /\ (details.handlerInvoked /\ details.show_id = NoShow) =>
         /\ details.pc = "finished" /\ details.result = "true"
         /\ ~details.handlerRaised
         /\ ~details.fetched
         /\ details.upsertCalls = 0
         /\ details.dlqCalls = 0

C12_Witness ==
    /\ \E w \in Workers :
         /\ worker[w].handlerInvoked /\ worker[w].page = NoPage
         /\ worker[w].dequeue_count = 2
         /\ worker[w].result = "true"
    /\ details.handlerInvoked /\ details.show_id = NoShow
    /\ details.result = "true"

\* C14: with a working tracking store, a function wrapped by
\* with_retry(operation_type, max_attempts) that first succeeds at call k <=
\* max_attempts is called k times and returns after k-1 sleeps and k-1
\* recorded attempts (1 .. k-1); when all max_attempts calls fail it is called
\* max_attempts times, attempts 1 .. max_attempts are recorded, it sleeps
\* max_attempts-1 times and the exception is re-raised.  The j-th sleep lasts
\* base_delay_seconds * 2^(j-1).
C14_WithRetryCounts ==
    (applied.f = "with_retry" /\ applied.trackOk /\ applied.max_attempts >= 1) =>
        LET r == applied.result
            n == applied.max_attempts
            k == applied.failures + 1
            last == IF k <= n THEN k - 1 ELSE n
        IN  /\ r.raised <=> (k > n)
            /\ r.calls = (IF k <= n THEN k ELSE n)
            /\ r.tracked = [j \in 1..last |-> j]
            /\ Len(r.sleeps) = (IF k <= n THEN k - 1 ELSE n - 1)
            /\ \A j \in 1..Len(r.sleeps) :
                 r.sleeps[j] = base_delay_seconds * 2^(j - 1)

C14_Witness ==
    /\ applied.f = "with_retry" /\ applied.trackOk
    /\ applied.max_attempts = 2
    /\ applied.failures = 2
    /\ applied.result.raised
    /\ applied.result.sleeps = <<2>>

\* C16: calculate_backoff_delay(n) is 2 * 2^(n-1) for every attempt number
\* n >= 1 -- 2, 4, 8 for 1, 2, 3 -- and the delay of attempt n+1 is exactly
\* twice the delay of attempt n.
C16_BackoffDoubles ==
    applied.f = "calculate_backoff_delay" =>
        /\ applied.attempt >= 1
        /\ applied.delay = 2 * 2^(applied.attempt - 1)
        /\ calculate_backoff_delay(applied.attempt + 1) = 2 * applied.delay
        /\ applied.attempt = 1 => applied.delay = 2
        /\ applied.attempt = 2 => applied.delay = 4
        /\ applied.attempt = 3 => applied.delay = 8

C16_Witness ==
    /\ applied.f = "calculate_backoff_delay"
    /\ applied.attempt = 3
    /\ applied.delay = 8

\* C15: when the handler is about to be invoked or has been invoked, a
\* delivery with dequeue_count 1 has slept and recorded nothing, and a
\* delivery with dequeue_count 2 or 3 has slept exactly once, for
\* base_delay_seconds * 2^(dequeue_count - 2), and recorded exactly one
\* RetryAttempt, with attempt = dequeue_count.
C15_BackoffBeforeHandler ==
    \A w \in Workers :
        LET wk == worker[w]
        IN  (wk.pc = "handler" \/ wk.handlerInvoked) =>
              /\ wk.dequeue_count \in 1..max_retry_attempts
              /\ wk.dequeue_count = 1 => (wk.sleeps = <<>> /\ wk.tracked = <<>>)
              /\ wk.dequeue_count > 1 =>
                   /\ wk.sleeps = <<base_delay_seconds * 2^(wk.dequeue_count - 2)>>
                   /\ wk.tracked = <<wk.dequeue_count>>

C15_Witness ==
    \E w \in Workers :
        /\ worker[w].pc = "handler"
        /\ ~worker[w].handlerInvoked
        /\ worker[w].dequeue_count = 3
        /\ worker[w].sleeps = <<4>>
        /\ worker[w].tracked = <<3>>

\* C17: a handle_queue_message_with_retry call that made its
\* send_to_dead_letter_queue call returns False whether or not the envelope
\* was written: the failure of the write never reaches the caller.
C17_DeadLetterNeverRaises ==
    \A w \in Workers :
        LET wk == worker[w]
        IN  /\ wk.dlqCalls <= 1
            /\ wk.dlqCalls = 1 =>
                 /\ wk.pc = "finished"
                 /\ wk.result = "false"
                 /\ wk.dlqWritten = Cardinality(EnvelopeOf(wk))

C17_Witness ==
    \E w \in Workers :
        /\ Finished(w)
        /\ worker[w].dlqCalls = 1
        /\ worker[w].dlqWritten = 0
        /\ EnvelopeOf(worker[w]) = {}
        /\ worker[w].result = "false"

\* C18 as stated: no tracker call ends with the storage exception raised to
\* its caller.
C18_TrackerNeverRaises ==
    \A c \in Callers : ~calls[c].raised

\* C19: a record comes into being only by a start_bulk_import_tracking call
\* that wrote it: no step of update_import_progress or complete_bulk_import
\* turns a missing record into a stored one, and such a call ends normally.
C19_MissingRecordNoOp ==
    [][\A i \in ImportIds :
          (tracking[i] = NoEntity /\ tracking'[i] # NoEntity) =>
              /\ tracking'[i] = start_bulk_import_tracking(0, 0)
              /\ \E c \in Callers :
                   /\ calls'[c].method = "start_bulk_import_tracking"
                   /\ calls'[c].wrote]_vars

C19_Witness ==
    \E c \in Callers :
        /\ calls[c].pc = "done"
        /\ calls[c].method \in {"update_import_progress", "complete_bulk_import"}
        /\ ~calls[c].wrote /\ ~calls[c].raised
        /\ \A i \in ImportIds : tracking[i] = NoEntity

\* C20: an update_import_progress call between whose read and write no other
\* write to the record took place still sees the stored record when it
\* writes and raises the sum of the counters by exactly 1 -- so two calls
\* that do not interleave raise it by 2.  (The witness is the interleaving
\* in which the second write raises it by 0.)
C20_UpdateIsReadThenOverwrite ==
    \A c \in Callers :
        LET call == calls[c]
        IN  /\ (call.pc = "write" /\ ~call.overlapped) =>
                 tracking[call.import_id] = call.entity
            /\ (call.pc = "done" /\ call.method = "update_import_progress"
                /\ call.wrote /\ ~call.overlapped) => call.rise = 1

C20_Witness ==
    /\ \A c \in Callers :
         /\ calls[c].pc = "done"
         /\ calls[c].method = "update_import_progress"
         /\ calls[c].wrote
    /\ ~calls["c1"].overlapped /\ calls["c1"].rise = 1
    /\ calls["c2"].overlapped /\ calls["c2"].rise = 0
    /\ \E i \in ImportIds : Total(tracking[i]) = 1

\* C21: the write of an update_import_progress call on a record that no other
\* call wrote since this call read it raises CompletedPages by exactly 1 when
\* success is true, and FailedPages by exactly 1 when it is false; it leaves
\* the other counter, Status, StartPage and EstimatedPages as they were and
\* sets LastProcessedPage to the page given.
C21_UpdateFrame ==
    [][\A c \in Callers :
          (/\ calls[c].pc = "write"
           /\ calls[c].method = "update_import_progress"
           /\ ~calls[c].overlapped
           /\ calls'[c].pc = "done" /\ calls'[c].wrote) =>
              LET old == tracking[calls[c].import_id]
                  new == tracking'[calls[c].import_id]
              IN  /\ new.CompletedPages =
                       old.CompletedPages + (IF calls[c].success THEN 1 ELSE 0)
                  /\ new.FailedPages =
                       old.FailedPages + (IF calls[c].success THEN 0 ELSE 1)
                  /\ new.Status = old.Status
                  /\ new.StartPage = old.StartPage
                  /\ new.EstimatedPages = old.EstimatedPages
                  /\ new.LastProcessedPage = calls[c].page]_vars

C21_Witness ==
    /\ calls["c2"].pc = "done"
    /\ calls["c2"].method = "update_import_progress"
    /\ calls["c2"].wrote /\ ~calls["c2"].overlapped
    /\ calls["c1"].method = "start_bulk_import_tracking"
    /\ \E i \in ImportIds :
         /\ tracking[i] # NoEntity
         /\ tracking[i].FailedPages = 1
         /\ tracking[i].CompletedPages = 0
         /\ tracking[i].LastProcessedPage = 1
         /\ tracking[i].Status = IN_PROGRESS

\* C22: every message on the page-index queue carries the import id that
\* start_get_all_shows generated and registered for the run, and every
\* next-page message a handler uploads carries the import id of the message
\* the handler is processing.
C22_ChainSharesImportId ==
    /\ \A m \in MsgIds :
         queue[m].state # "none" =>
             /\ queue[m].import_id # NoImport
             /\ queue[m].import_id \in generated
             /\ queue[m].import_id = starter.import_id
             /\ starter.pc = "returned" => queue[m].import_id = starter.returned
    /\ \A w \in Workers :
         LET wk == worker[w]
         IN  /\ wk.pc # "idle" => wk.import_id = queue[wk.msg].import_id
             /\ \A k \in 1..Len(wk.enqueues) :
                  wk.enqueues[k].import_id = wk.import_id
             /\ \A k \in 1..Len(wk.enqueued) :
                  queue[wk.enqueued[k]].import_id = queue[wk.msg].import_id

C22_Witness ==
    \E w \in Workers :
        /\ Finished(w)
        /\ worker[w].msg = 1
        /\ worker[w].enqueued = <<2>>
        /\ queue[2].state = "visible"
        /\ queue[2].page = queue[1].page + 1
        /\ queue[2].import_id = starter.returned
        /\ starter.returned # NoImport

\* C23: get_dead_letter_queue_name returns "index-queue-deadletter" for an
\* operation type that contains "index" in any letter case (also when it
\* contains "details" too), "details-queue-deadletter" for one that contains
\* "details" in any letter case and no "index", and "general-deadletter" for
\* every other one; the name returned always ends in "-deadletter".
HasIndex ==
    { INDEX_PAGE_OP,
      <<"I","N","D","E","X","_","P","A","G","E">>,
      <<"r","e","I","n","d","e","X">>,
      <<"d","e","t","a","i","l","s","_","i","n","d","e","x">>,
      <<"i","n","d","e","x","_","d","e","t","a","i","l","s">> }
HasDetailsOnly ==
    { SHOW_DETAILS_OP, <<"S","h","o","w","_","D","E","T","A","I","L","S">> }
EndsWith(s, suffix) ==
    /\ Len(s) >= Len(suffix)
    /\ SubSeq(s, Len(s) - Len(suffix) + 1, Len(s)) = suffix
C23_DeadLetterQueueName ==
    applied.f = "get_dead_letter_queue_name" =>
        LET t == applied.operation_type
            name == applied.name
        IN  /\ EndsWith(name, <<"-","d","e","a","d","l","e","t","t","e","r">>)
            /\ t \in HasIndex <=>
                 name = <<"i","n","d","e","x","-","q","u","e","u","e",
                          "-","d","e","a","d","l","e","t","t","e","r">>
            /\ t \in HasDetailsOnly <=>
                 name = <<"d","e","t","a","i","l","s","-","q","u","e","u","e",
                          "-","d","e","a","d","l","e","t","t","e","r">>
            /\ t \notin (HasIndex \cup HasDetailsOnly) <=>
                 name = <<"g","e","n","e","r","a","l",
                          "-","d","e","a","d","l","e","t","t","e","r">>

C23_Witness ==
    /\ applied.f = "get_dead_letter_queue_name"
    /\ applied.operation_type = <<"S","h","o","w","_","D","E","T","A","I","L","S">>
    /\ applied.name = DETAILS_QUEUE \o dead_letter_queue_suffix

\* C24: retry_failed_operation makes one upload of the data it was given, as
\* it is, to the index queue for operation type index_page and to the details
\* queue for show_details, and returns True when the upload succeeded -- the
\* message then on the queue is that data; for any other operation type it
\* makes no upload and returns False; when the upload raises it returns
\* False (it never raises) and no message arrives.
C24_RetryFailedOperation ==
    applied.f = "retry_failed_operation" =>
        LET t == applied.operation_type
            data == applied.operation_data
        IN  /\ applied.result \in BOOLEAN
            /\ t = <<"i","n","d","e","x","_","p","a","g","e">> =>
                 /\ applied.uploads =
                      <<[queue_name |-> INDEX_QUEUE, message |-> data]>>
                 /\ applied.result = applied.ok
                 /\ applied.ok =>
                      /\ applied.arrived \in MsgIds
                      /\ queue[applied.arrived].state = "visible"
                      /\ queue[applied.arrived].page = data.page
                      /\ queue[applied.arrived].import_id = data.import_id
            /\ t = <<"s","h","o","w","_","d","e","t","a","i","l","s">> =>
                 /\ applied.uploads =
                      <<[queue_name |-> DETAILS_QUEUE, message |-> data]>>
                 /\ applied.result = applied.ok
                 /\ applied.ok =>
                      /\ details.state = "visible"
                      /\ details.show_id = data.show_id
            /\ t \notin {INDEX_PAGE_OP, SHOW_DETAILS_OP} =>
                 /\ applied.uploads = <<>>
                 /\ applied.result = FALSE
            /\ ~applied.ok => (applied.result = FALSE /\ applied.arrived = 0)

C24_Witness ==
    /\ applied.f = "retry_failed_operation"
    /\ applied.operation_type = SHOW_DETAILS_OP
    /\ applied.result = TRUE
    /\ details.state = "visible"
    /\ details.show_id = 5
    /\ queue[1].state = "visible"
    /\ queue[1].page = 1

\* C25: a request whose page parameter is a string that is no integer, or a
\* negative integer, gets the 400 response and changes nothing: no run is
\* registered and no message uploaded.  A request without the parameter (or
\* with an empty one) or with a non-negative integer gets no error response:
\* it enters start_get_all_shows once, with page 0 or the number given, which
\* registers one run; the upload that follows puts exactly one message on the
\* queue, for that page and run, and the response is 202 exactly when
\* start_get_all_shows has returned.
BadPageStrings ==
    { <<"-","1">>, <<"a","b","c">>, <<"1",".","5">>, <<"1","a">>, <<"-">>,
      <<" ">>, <<"_","1">>, <<"1"," ","1">>, <<"1","_","_","0">> }
GoodPageStrings ==
    { <<<<"None">>, 0>>, <<<<>>, 0>>, <<<<"0">>, 0>>, <<<<"1">>, 1>>,
      <<<<"0","1">>, 1>>, <<<<" ","1"," ">>, 1>>, <<<<"+","1">>, 1>>,
      <<<<"-","0">>, 0>>, <<<<"2">>, 2>>, <<<<"1","_","0">>, 10>> }
C26_GetImportStatusReadOnly ==
    [][\A c \in Callers :
          (calls'[c].method = "get_import_status" /\ calls'[c] # calls[c]) =>
              LET call == calls'[c]
                  stored == tracking[call.import_id]
              IN  /\ tracking' = tracking
                  /\ call.pc = "done"
                  /\ ~call.raised /\ ~call.wrote
                  /\ (~call.failed /\ stored # NoEntity) => call.returned = stored
                  /\ (call.failed \/ stored = NoEntity) =>
                         call.returned = NoEntity]_vars

C26_Witness ==
    \E c \in Callers :
        /\ calls[c].method = "get_import_status"
        /\ ~calls[c].failed
        /\ calls[c].returned # NoEntity
        /\ calls[c].returned.CompletedPages = 1
        /\ calls[c].returned = tracking[calls[c].import_id]

\* C27 as stated: of every stored health record whose value is a number,
\* IsHealthy is true exactly when the record has no threshold or its value is
\* at most its threshold.
C27_IsHealthyMatchesStored ==
    \A m \in Metrics :
        (health[m] # NoMetric /\ ParseInt(health[m].Value).ok) =>
            (health[m].IsHealthy <=>
                \/ health[m].Threshold = <<"None">>
                \/ ParseInt(health[m].Value).value
                      <= ParseInt(health[m].Threshold).value)

\* C28 as stated: the retry records written while one page is handled have
\* pairwise different (operation_type, identifier, attempt) keys, so that no
\* record overwrites another.
C28_RetryRecordsWrittenOnce ==
    \A w \in Workers :
        \A j, k \in 1..Len(worker[w].retryKeys) :
            j # k => worker[w].retryKeys[j] # worker[w].retryKeys[k]

\* C29 as stated: a get_show_details call in which the upsert of the fetched
\* show failed on every one of its attempts does not raise.
C29_DetailUpsertFailureHandled ==
    (/\ details.pc = "finished"
     /\ details.fetched
     /\ details.upsertCalls = UpsertMaxAttempts
     /\ details.handlerRaised) => details.result # "raised"

\* C30: over all the deliveries of a message, each with dequeue_count one
\* higher than the one before, the handler is invoked at most
\* max_retry_attempts (3) times, and never more often than the message was
\* delivered.
C30_AtMostMaxInvocations ==
    \A m \in MsgIds :
        /\ invoked[m] <= 3
        /\ invoked[m] <= queue[m].dequeue_count
        /\ queue[m].state = "none" => invoked[m] = 0

C30_Witness ==
    \E m \in MsgIds :
        /\ invoked[m] = max_retry_attempts
        /\ queue[m].dequeue_count = max_retry_attempts + 1
        /\ queue[m].state = "deleted"
        /\ queue[m].dlqSends = 2

\* C31: every delivery on which get_shows_index_page is entered comes to its
\* end, and one with dequeue_count 3 (or more) ends with a normal return --
\* True after the handler returned, or False after the send_to_dead_letter_queue
\* call -- never with an exception: a message that is redelivered whenever the
\* entry point raises is consumed at its third delivery at the latest.
C31_ConsumedByThirdDelivery ==
    /\ [](\A w \in Workers :
            LET wk == worker[w]
            IN  (Finished(w) /\ wk.called
                 /\ wk.dequeue_count >= max_retry_attempts) =>
                  /\ wk.result \in {"true", "false"}
                  /\ wk.result = "true" => (wk.handlerInvoked /\ ~wk.handlerRaised)
                  /\ wk.result = "false" => wk.dlqCalls = 1)
    /\ \A w \in {"w1"} :
          (worker[w].called /\ worker[w].pc # "idle") ~> Finished(w)

C31_Witness ==
    \E w \in Workers :
        /\ Finished(w) /\ worker[w].called
        /\ worker[w].dequeue_count = max_retry_attempts
        /\ worker[w].fetch.kind = "raise"
        /\ worker[w].result = "false"
        /\ worker[w].dlqCalls = 1

\* C32: the next-page uploads and the completions an invocation of the page
\* handler calls for are a function of the message (page, import_id) and of
\* the catalog's answer alone: whatever the tracker holds (any counters, no
\* record) and whether or not the tracking store fails, an invocation that has
\* ended made exactly the calls PaginationDecision gives for its message and
\* fetch result.
C32_DecisionIndependentOfTracker ==
    \A w \in Workers :
        LET wk == worker[w]
            d == PaginationDecision(wk.page, wk.import_id, wk.fetch)
        IN  (Finished(w) /\ wk.handlerInvoked) =>
              /\ wk.enqueues = d.enqueues
              /\ wk.completes = d.completes

\* a full page continued although the tracking store failed to take its
\* progress update
C32_Witness ==
    \E w \in Workers :
        /\ Finished(w) /\ worker[w].handlerInvoked
        /\ worker[w].import_id # NoImport
        /\ tracking[worker[w].import_id] # NoEntity
        /\ tracking[worker[w].import_id].CompletedPages = 0
        /\ worker[w].fetch.n >= FullPage
        /\ Len(worker[w].enqueues) = 1
        /\ worker[w].progress = <<TRUE>>

\* C33: a failure of the tracking store while the RetryAttempt of a
\* redelivery is recorded leaves the coordinator's control flow as it is:
\* every delivery with dequeue_count 2 or 3 on which the entry point is
\* entered invokes the handler.
C33_RedeliveryInvokesHandler ==
    \A w \in Workers :
        (Finished(w) /\ worker[w].called
         /\ worker[w].dequeue_count \in 2..max_retry_attempts) =>
            worker[w].handlerInvoked

\* C34: an invocation of the page handler calls update_import_progress at
\* most once, with success or with failure, never with both.
C34_OneProgressUpdate ==
    \A w \in Workers : Len(worker[w].progress) <= 1

\* C35: whichever way the update_import_progress and complete_bulk_import
\* calls of concurrent page handlers interleave, no step of a handler lowers
\* the stored CompletedPages or FailedPages of a run.
C35_CountersNeverDecrease ==
    [][\A i \in ImportIds :
         (tracking[i] # NoEntity /\ starter' = starter) =>
            /\ tracking'[i] # NoEntity
            /\ tracking'[i].CompletedPages >= tracking[i].CompletedPages
            /\ tracking'[i].FailedPages >= tracking[i].FailedPages]_vars

\* C36: the pagination chain of a run never forks: the page-index queue never
\* holds (pending, in process or consumed) two messages for the same page of
\* the same run, however often the message for the page before is delivered.
C36_ChainNeverForks ==
    \A m \in MsgIds, k \in MsgIds :
        (m # k /\ queue[m].state # "none" /\ queue[k].state # "none"
         /\ queue[m].import_id # NoImport
         /\ queue[m].import_id = queue[k].import_id) =>
            queue[m].page # queue[k].page

\* C37: a message enters the page-index queue, other than by the start of a
\* run, only from a handler invocation that fetched its page p with at least
\* 200 items and whose progress report for p has returned; the message is for
\* page p+1 of the invocation's run.  An invocation that fetched 1 to 199
\* items calls for no upload and no completion.
C37_EnqueueOnlyAfterFullPage ==
    /\ [][\A m \in MsgIds :
            (queue[m].state = "none" /\ queue'[m].state # "none"
             /\ starter' = starter) =>
               \E w \in Workers :
                  LET wk == worker[w]
                  IN  /\ wk.pc = "enqueue"
                      /\ wk.fetch.kind = "list" /\ wk.fetch.n >= 200
                      /\ wk.import_id # NoImport => wk.progress = <<TRUE>>
                      /\ queue'[m].page = wk.page + 1
                      /\ queue'[m].import_id = wk.import_id
                      /\ worker'[w].enqueued = <<m>>]_vars
    /\ [](\A w \in Workers :
            LET wk == worker[w]
            IN  /\ wk.pc = "enqueue" =>
                      (wk.import_id # NoImport => wk.progress = <<TRUE>>)
                /\ (wk.fetch.kind = "list" /\ wk.fetch.n \in 1..199) =>
                      (wk.enqueues = <<>> /\ wk.completes = <<>>))

\* both cases: a full page continued, and a page of 199 items left alone
C37_Witness ==
    \E w \in Workers :
        /\ Finished(w)
        /\ worker[w].fetch.kind = "list" /\ worker[w].fetch.n \in 1..199
        /\ worker[w].progress = <<TRUE>>
        /\ worker[w].result = "true"
        /\ \E m \in MsgIds, k \in MsgIds :
              /\ queue[m].state = "deleted" /\ queue[k].state = "invisible"
              /\ queue[k].page = queue[m].page + 1
              /\ worker[w].msg = k

\* what the item loop owes an item: its upsert returned, its ID-table row is
\* due, its ID-table row was written
UpsertReturned(show, trackOk) ==
    IsRecord(show)
    /\ ~with_retry(UpsertMaxAttempts, show.upsertFailures, trackOk).raised

IdRowDue(show, trackOk) ==
    UpsertReturned(show, trackOk) /\ show.id # 0 /\ show.updated # 0

IdRowWritten(show, trackOk) ==
    IdRowDue(show, trackOk)
    /\ ~with_retry(UpsertMaxAttempts, show.idFailures, trackOk).raised

\* C38: in an invocation that has ended, the ID-table row of an item is
\* written only when the item is a record whose upsert returned without
\* raising and which carries both an id and an updated value, and then unless
\* the ID-table
\* update itself exhausts its retries; such a failure does not raise out of
\* the handler and does not stop the loop: every record of the page is upserted
\* and the invocation goes on to its success report.  (The items after the
\* prefix of a page are all alike, see ItemAt: they are counted, `rest`.)
C38_IdTableAfterUpsert ==
    \A w \in Workers :
        LET wk == worker[w]
            r == wk.fetch
            first == 1..Len(r.prefix)
            rest == r.n - Len(r.prefix)
        IN  (Finished(w) /\ wk.handlerInvoked /\ r.kind = "list" /\ r.n > 0) =>
              /\ \E trackOk \in BOOLEAN :
                    /\ rest > 0 => IdRowWritten(ItemAt(r, r.n), trackOk)
                    /\ wk.idUpdates =
                         Cardinality({k \in first : IdRowWritten(r.prefix[k], trackOk)})
                         + rest
                    /\ wk.success_count =
                         Cardinality({k \in first :
                            /\ UpsertReturned(r.prefix[k], trackOk)
                            /\ IdRowDue(r.prefix[k], trackOk) =>
                                  IdRowWritten(r.prefix[k], trackOk)})
                         + rest
              /\ wk.upserted = {k \in first : IsRecord(r.prefix[k])}
              /\ wk.upsertCalls = Cardinality(wk.upserted) + rest
              /\ wk.import_id # NoImport => wk.progress[1] = TRUE
              /\ wk.result = "raised" => Len(wk.enqueues) = 1

\* a page with an item whose ID-table update failed three times, followed by
\* items that were upserted and had their rows written
C38_Witness ==
    \E w \in Workers :
        LET wk == worker[w]
            r == wk.fetch
        IN  /\ Finished(w) /\ wk.result = "true"
            /\ r.kind = "list" /\ r.n = FullPage + 6
            /\ \E k \in 1..Len(r.prefix) :
                  /\ IdRowDue(r.prefix[k], TRUE)
                  /\ ~IdRowWritten(r.prefix[k], TRUE)
                  /\ k + 1 \in wk.upserted
            /\ wk.idUpdates = FullPage + 1
            /\ Len(wk.enqueued) = 1

\* C39: after get_updates handled n updates of which success_count went
\* through, the updates_processed record it stored is healthy exactly when at
\* least 95% of them succeeded (success_count >= 0.95 * n).
C39_HealthyFromNinetyFivePercent ==
    (applied.f = "get_updates" /\ applied.reported) =>
        (health["updates_processed"].IsHealthy <=>
            100 * applied.success_count >= 95 * applied.n)

====
